---- MODULE Spec2Model ----
(***************************************************************************)
(* A model of the adump pool engine of rdump (cas/src/pool/adump): the     *)
(* pool directory, its pool-files and their indexes, and the AdumpPool     *)
(* operations open / add / find / contains_key / flush.                    *)
(***************************************************************************)
EXTENDS Integers, Sequences, FiniteSets, TLC

\* ------------------------------------------------------------------------
\* Bounds of the exploration.
MaxFrames == 2
MaxFaults == 1
MaxBufFaults == 2
MaxNodes == 2
MaxStream == 3
MaxLines == 4

\* ------------------------------------------------------------------------
\* Options are sequences of length at most one.
None == <<>>
Some(x) == <<x>>

MaxOf(S) == CHOOSE x \in S : \A y \in S : y <= x
MinInt(a, b) == IF a < b THEN a ELSE b

\* ------------------------------------------------------------------------
\* File names: sequences of characters.

\* The characters that occur in names, in ASCII order.
Alphabet ==
    <<"-", ".", "0", "1", "2", "3", "4", "5", "6", "7", "8", "9",
      "a", "b", "c", "d", "e", "f", "g", "h", "i", "j", "k", "l", "m",
      "n", "o", "p", "q", "r", "s", "t", "u", "v", "w", "x", "y", "z">>

Code(c) == CHOOSE i \in 1..Len(Alphabet) : Alphabet[i] = c

\* Ord for PathBuf, on entries of one directory: bytewise lexicographic.
NameLess(a, b) ==
    \E i \in 1..(MinInt(Len(a), Len(b)) + 1) :
        /\ \A j \in 1..(i - 1) : a[j] = b[j]
        /\ IF i > Len(a) THEN i <= Len(b)
           ELSE i <= Len(b) /\ Code(a[i]) < Code(b[i])

\* Vec::sort on a vector of distinct paths.
RECURSIVE SortNames(_)
SortNames(S) ==
    IF S = {} THEN <<>>
    ELSE LET m == CHOOSE x \in S : \A y \in S \ {x} : NameLess(x, y)
         IN  <<m>> \o SortNames(S \ {m})

DigitChars == <<"0", "1", "2", "3", "4", "5", "6", "7", "8", "9">>
IsDigit(c) == \E i \in 1..10 : DigitChars[i] = c
DigitVal(c) == (CHOOSE i \in 1..10 : DigitChars[i] = c) - 1

\* Display of a u32 in decimal.
RECURSIVE Decimal(_)
Decimal(n) ==
    IF n < 10 THEN <<DigitChars[n + 1]>>
    ELSE Decimal(n \div 10) \o <<DigitChars[(n % 10) + 1]>>

\* The {:04} format: zero padding to a minimum width.
RECURSIVE ZeroPad(_, _)
ZeroPad(s, w) == IF Len(s) >= w THEN s ELSE ZeroPad(<<"0">> \o s, w)

\* str::parse::<u32> on a string of digits.
RECURSIVE ParseU32(_)
ParseU32(s) ==
    IF s = <<>> THEN 0
    ELSE 10 * ParseU32(SubSeq(s, 1, Len(s) - 1)) + DigitVal(s[Len(s)])

\* str::parse::<u32>: None when the string is empty or holds a character
\* that is no digit.
ParseU32Checked(s) ==
    IF s = <<>> \/ \E i \in 1..Len(s) : ~IsDigit(s[i]) THEN None
    ELSE Some(ParseU32(s))

TrueText == <<"t", "r", "u", "e">>
FalseText == <<"f", "a", "l", "s", "e">>

\* Display of a bool.
BoolText(b) == IF b THEN TrueText ELSE FalseText

\* str::parse::<bool>
ParseBool(s) ==
    IF s = TrueText THEN Some(TRUE)
    ELSE IF s = FalseText THEN Some(FALSE)
    ELSE None

HexChars == <<"0", "1", "2", "3", "4", "5", "6", "7", "8", "9",
              "a", "b", "c", "d", "e", "f">>
IsHex(c) == \E i \in 1..16 : HexChars[i] = c
HexVal(c) == (CHOOSE i \in 1..16 : HexChars[i] = c) - 1

\* The bytes of a uuid in hexadecimal.
RECURSIVE HexOf(_)
HexOf(bytes) ==
    IF bytes = <<>> THEN <<>>
    ELSE <<HexChars[(bytes[1] \div 16) + 1], HexChars[(bytes[1] % 16) + 1]>>
            \o HexOf(Tail(bytes))

RECURSIVE UnHex(_)
UnHex(s) ==
    IF Len(s) < 2 THEN <<>>
    ELSE <<16 * HexVal(s[1]) + HexVal(s[2])>> \o UnHex(SubSeq(s, 3, Len(s)))

\* Uuid::hyphenated: groups of 8, 4, 4, 4 and 12 digits.
Hyphenated(u) ==
    HexOf(SubSeq(u, 1, 4)) \o <<"-">> \o HexOf(SubSeq(u, 5, 6)) \o <<"-">>
        \o HexOf(SubSeq(u, 7, 8)) \o <<"-">> \o HexOf(SubSeq(u, 9, 10)) \o <<"-">>
        \o HexOf(SubSeq(u, 11, 16))

HyphenAt == {9, 14, 19, 24}

\* Uuid::parse_str on the simple and on the hyphenated form: None when the
\* string is neither.
Uuid_parse_str(s) ==
    IF Len(s) = 32 /\ \A i \in 1..32 : IsHex(s[i]) THEN Some(UnHex(s))
    ELSE IF /\ Len(s) = 36
            /\ \A i \in HyphenAt : s[i] = "-"
            /\ \A i \in (1..36) \ HyphenAt : IsHex(s[i])
    THEN Some(UnHex(SelectSeq(s, IsHex)))
    ELSE None

\* Mutant of EqAt: the line is split at its last '='.
EqAt_last(line) ==
    IF \A i \in 1..Len(line) : line[i] # "=" THEN 0
    ELSE CHOOSE i \in 1..Len(line) :
            line[i] = "=" /\ \A j \in (i + 1)..Len(line) : line[j] # "="

\* line.splitn(2, '='): the position of the first '=', 0 when there is none.
EqAt(line) ==
    IF \A i \in 1..Len(line) : line[i] # "=" THEN 0
    ELSE CHOOSE i \in 1..Len(line) :
            line[i] = "=" /\ \A j \in 1..(i - 1) : line[j] # "="

\* result.insert(fields[0], fields[1])
MapInsert(map, key, value) ==
    [k \in DOMAIN map \cup {key} |-> IF k = key THEN value ELSE map[k]]

\* pfile::parse: [r, map], from the i-th line on.
RECURSIVE pfile_parse_from(_, _, _)
pfile_parse_from(lines, i, map) ==
    IF i > Len(lines) THEN [r |-> "Ok", map |-> map]
    ELSE IF lines[i] = <<>> THEN pfile_parse_from(lines, i + 1, map)
    ELSE IF lines[i][1] = "#" THEN pfile_parse_from(lines, i + 1, map)
    ELSE IF EqAt(lines[i]) = 0 THEN [r |-> "PropertyError", map |-> map]
    ELSE pfile_parse_from(lines, i + 1,
            MapInsert(map, SubSeq(lines[i], 1, EqAt(lines[i]) - 1),
                      SubSeq(lines[i], EqAt(lines[i]) + 1, Len(lines[i]))))

pfile_parse(lines) == pfile_parse_from(lines, 1, <<>>)

PoolPrefix == <<"p", "o", "o", "l", "-", "d", "a", "t", "a", "-">>
DataExt == <<"d", "a", "t", "a">>
IdxExt == <<"i", "d", "x">>

\* format!("pool-data-{:04}.data", next_file)
PoolFileName(n) == PoolPrefix \o ZeroPad(Decimal(n), 4) \o <<".">> \o DataExt

LastDot(name) ==
    LET ds == {i \in 1..Len(name) : name[i] = "."}
    IN  IF ds = {} THEN 0 ELSE MaxOf(ds)

\* Path::extension: the part after the last dot, if the dot is not leading.
Extension(name) ==
    IF LastDot(name) <= 1 THEN None
    ELSE Some(SubSeq(name, LastDot(name) + 1, Len(name)))

\* Path::with_extension
WithExtension(name, ext) ==
    (IF LastDot(name) <= 1 THEN name ELSE SubSeq(name, 1, LastDot(name) - 1))
        \o <<".">> \o ext

\* tmpify: the file name with ".tmp" appended.
tmpify(name) == name \o <<".", "t", "m", "p">>

\* Regex ^pool-data-(\d\d\d\d).data applied to a file name: the capture.
RegexCapture(name) ==
    IF /\ Len(name) >= 19
       /\ SubSeq(name, 1, 10) = PoolPrefix
       /\ \A i \in 11..14 : IsDigit(name[i])
       /\ SubSeq(name, 16, 19) = DataExt
    THEN Some(SubSeq(name, 11, 14))
    ELSE None

\* ------------------------------------------------------------------------
\* Kinds, oids, compression, chunks.

\* Kind(u32): the little-endian reading of four ASCII bytes.
KindBlob == 1651469410   \* "blob"
KindBack == 1801675106   \* "back"

\* Kind::bytes
KindBytes(k) ==
    <<k % 256, (k \div 256) % 256, (k \div 65536) % 256, (k \div 16777216) % 256>>

\* A digest of a byte string, standing for SHA-1: two bytes instead of twenty.
RECURSIVE Digest(_, _)
Digest(h, bytes) ==
    IF bytes = <<>> THEN h
    ELSE Digest((h * 31 + bytes[1] + 7) % 65536, Tail(bytes))

\* Oid::from_data
from_data(kind, data) ==
    LET h == Digest(0, KindBytes(kind) \o data)
    IN  <<h \div 256, h % 256>>

\* Ord for Oid: lexicographic on the bytes.
OidLess(a, b) == a[1] < b[1] \/ (a[1] = b[1] /\ a[2] < b[2])

\* The zlib stream of a buffer: a two byte header and run-length pairs.
RECURSIVE RunLength(_, _)
RunLength(buf, n) ==
    IF n < Len(buf) /\ buf[n + 1] = buf[1] THEN RunLength(buf, n + 1) ELSE n

RECURSIVE Runs(_)
Runs(buf) ==
    IF buf = <<>> THEN <<>>
    ELSE LET n == RunLength(buf, 1)
         IN  <<n, buf[1]>> \o Runs(SubSeq(buf, n + 1, Len(buf)))

zlib_encode(buf) == <<120, 156>> \o Runs(buf)

RECURSIVE Expand(_)
Expand(z) ==
    IF Len(z) < 2 THEN <<>>
    ELSE [i \in 1..z[1] |-> z[2]] \o Expand(SubSeq(z, 3, Len(z)))

\* Mutant of zlib_decode: the two bytes of the header are taken for data.
zlib_decode_header_too(z) == Expand(z)

zlib_decode(z) == Expand(SubSeq(z, 3, Len(z)))

\* zlib::deflate: the compressed form, only when it is smaller.
deflate(buf) ==
    LET res == zlib_encode(buf)
    IN  IF Len(res) < Len(buf) THEN Some(res) ELSE None

\* zlib::inflate: the expanded form, only when it has the expected length.
inflate(buf, size_hint) ==
    LET res == zlib_decode(buf)
    IN  IF Len(res) = size_hint THEN Some(res) ELSE None

\* Chunk::new_plain
new_plain(kind, data) ==
    [kind |-> kind, oid |-> from_data(kind, data), data_len |-> Len(data),
     data |-> Some(data), zdata |-> [st |-> "Untried", buf |-> <<>>]]

\* Chunk::new_compressed
new_compressed(kind, oid, zbuf, data_len) ==
    [kind |-> kind, oid |-> oid, data_len |-> data_len,
     data |-> None, zdata |-> [st |-> "Compressed", buf |-> zbuf]]

\* Chunk::zdata: the value returned (None or Some(compressed bytes)).
zdata(c) ==
    IF c.zdata.st = "Uncompressible" THEN None
    ELSE IF c.zdata.st = "Compressed" THEN Some(c.zdata.buf)
    ELSE deflate(c.data[1])

\* Chunk::data / force_data: the value returned; None stands for the panic
\* "zlib unable to inflate".
data(c) ==
    IF c.data # None THEN c.data
    ELSE inflate(c.zdata.buf, c.data_len)

\* Chunk::zdata, lines 85-97: the chunk after the compression was tried, its
\* outcome cached.
zdata_tried(c) ==
    IF c.zdata.st # "Untried" \/ c.data = None THEN c
    ELSE IF deflate(c.data[1]) = None
         THEN [c EXCEPT !.zdata = [st |-> "Uncompressible", buf |-> <<>>]]
         ELSE [c EXCEPT !.zdata = [st |-> "Compressed", buf |-> deflate(c.data[1])[1]]]

\* Mutant of force_data: the compressed buffer is given up for the data.
force_data_moves(c) ==
    IF c.data # None \/ data(c) = None THEN c
    ELSE [c EXCEPT !.data = data(c), !.zdata = [st |-> "Untried", buf |-> <<>>]]

\* Chunk::force_data: the chunk after the data was materialized (as it was,
\* when force_data panics).
force_data(c) ==
    IF c.data # None \/ data(c) = None THEN c
    ELSE [c EXCEPT !.data = data(c)]

\* The chunks the clients of the model present.
Zeros(n) == [i \in 1..n |-> 0]
Chunks == {new_plain(KindBlob, <<>>), new_plain(KindBlob, Zeros(20)),
           new_plain(KindBack, <<1, 2, 3, 4, 5, 6, 7, 8, 9, 10, 11, 12, 13, 14, 15, 16, 17>>)}
Oids == {c.oid : c \in Chunks}
AbsentOid == <<0, 0>>

\* ------------------------------------------------------------------------
\* ChunkIO framing.

\* ulen = 0xFFFF_FFFF (-1 read as an i32): the payload is stored uncompressed.
NoUlen == -1
HeaderLen == 48

\* Mutant of pad_len: sixteen bytes of padding after an aligned payload.
pad_len_aligned_too(clen) == 16 - (clen % 16)

\* pad_len = 15 & (-(clen as i32))
pad_len(clen) == (16 - (clen % 16)) % 16

\* ChunkWrite::write_chunk: the frame a chunk is written as.
write_chunk(c) ==
    IF zdata(c) # None
    THEN [clen |-> Len(zdata(c)[1]), ulen |-> c.data_len, kind |-> c.kind,
          oid |-> c.oid, payload |-> zdata(c)[1], pad |-> pad_len(Len(zdata(c)[1]))]
    ELSE [clen |-> c.data_len, ulen |-> NoUlen, kind |-> c.kind,
          oid |-> c.oid, payload |-> data(c)[1], pad |-> pad_len(c.data_len)]

\* The bytes a frame occupies in the file.
FrameBytes(f) == HeaderLen + Len(f.payload) + f.pad

\* Mutant of read_chunk: every frame is taken for a compressed one.
read_chunk_compressed(f) == new_compressed(f.kind, f.oid, f.payload, f.ulen)

\* ChunkRead::read_chunk on a complete frame.
read_chunk(f) ==
    IF f.ulen = NoUlen THEN new_plain(f.kind, f.payload)
    ELSE new_compressed(f.kind, f.oid, f.payload, f.ulen)

\* The bytes of a frame.  b"adump-pool-v1.1\n"
ChunkMagic == <<97, 100, 117, 109, 112, 45, 112, 111, 111, 108, 45, 118, 49, 46, 49, 10>>

\* write_u32::<LittleEndian>; -1 is written as 0xFFFF_FFFF.
LE32(n) == <<n % 256, (n \div 256) % 256, (n \div 65536) % 256, (n \div 16777216) % 256>>

\* read_u32::<LittleEndian>, the value read as an i32.
ReadLE32(b) ==
    b[1] + 256 * b[2] + 65536 * b[3]
        + 16777216 * (IF b[4] >= 128 THEN b[4] - 256 ELSE b[4])

\* The twenty bytes of an oid: the two bytes of the digest, and eighteen more.
OidBytes(oid) == oid \o [i \in 1..18 |-> 0]

\* ChunkWrite::write_chunk: the bytes written for a frame.
write_chunk_bytes(f) ==
    ChunkMagic \o LE32(f.clen) \o LE32(f.ulen) \o KindBytes(f.kind) \o OidBytes(f.oid)
        \o f.payload \o [i \in 1..f.pad |-> 0]

\* ChunkRead::read_chunk: the frame at byte position pos of a stream,
\* [r, frame, next].
read_frame_payload(bytes, pos, clen, ulen, kindb, oidb) ==
    IF clen < 0 \/ Len(bytes) < pos + HeaderLen + clen + pad_len(clen)
    THEN [r |-> "Io", frame |-> None, next |-> pos]
    ELSE [r |-> "Ok",
          frame |-> Some([clen |-> clen, ulen |-> ulen, kind |-> ReadLE32(kindb),
                          oid |-> SubSeq(oidb, 1, 2),
                          payload |-> SubSeq(bytes, pos + HeaderLen + 1,
                                             pos + HeaderLen + clen),
                          pad |-> pad_len(clen)]),
          next |-> pos + HeaderLen + clen + pad_len(clen)]

read_frame_header(bytes, pos, header) ==
    IF SubSeq(header, 1, 16) # ChunkMagic
    THEN [r |-> "CorruptChunk", frame |-> None, next |-> pos]
    ELSE IF \E i \in 25..28 : header[i] >= 128
    THEN [r |-> "BadKind", frame |-> None, next |-> pos]
    ELSE read_frame_payload(bytes, pos, ReadLE32(SubSeq(header, 17, 20)),
                            ReadLE32(SubSeq(header, 21, 24)),
                            SubSeq(header, 25, 28), SubSeq(header, 29, 48))

read_frame(bytes, pos) ==
    IF Len(bytes) < pos + HeaderLen THEN [r |-> "Io", frame |-> None, next |-> pos]
    ELSE read_frame_header(bytes, pos, SubSeq(bytes, pos + 1, pos + HeaderLen))

\* write_size: 48 + ((payload.len() + 15) & !15)
write_size(c) ==
    LET payload == IF zdata(c) # None THEN zdata(c)[1] ELSE data(c)[1]
    IN  48 + ((Len(payload) + 15) \div 16) * 16

\* ------------------------------------------------------------------------
\* The directory: a function from the names of its entries to their contents.
\*   [t |-> "dir"]                                   a subdirectory
\*   [t |-> "data", frames |-> <<frame, ...>>]       a stream of frames
\*   [t |-> "idx", magic, version, file_size,        an index file, of which
\*    nodes, bytes]                                  the first `bytes` exist
\*   [t |-> "junk", len |-> n]                       any other file

DirEnt == [t |-> "dir"]
DataFile(frames) == [t |-> "data", frames |-> frames]

RECURSIVE SumBytes(_)
SumBytes(frames) ==
    IF frames = <<>> THEN 0
    ELSE FrameBytes(frames[1]) + SumBytes(Tail(frames))

\* The bytes of an index of the given nodes (the layout written by save).
IndexBytes(nodes) ==
    16 + 1024 + 20 * Len(nodes) + 4 * Len(nodes) + 4
       + 4 * Cardinality({nodes[i].kind : i \in 1..Len(nodes)}) + Len(nodes)

\* The magic and the version that FileIndex::save writes.
IdxMagic == "ldumpidx"
IdxVersion == 4

IdxFile(size, nodes) ==
    [t |-> "idx", magic |-> IdxMagic, version |-> IdxVersion, file_size |-> size,
     nodes |-> nodes, bytes |-> IndexBytes(nodes)]

\* The frames of a stream (none in a file that is not one).
FramesOf(e) == IF e.t = "data" THEN e.frames ELSE <<>>

\* Metadata::len
FileLen(e) ==
    IF e.t = "data" THEN SumBytes(e.frames)
    ELSE IF e.t = "idx" THEN e.bytes
    ELSE IF e.t = "junk" THEN e.len
    ELSE 0

\* Path::is_file
is_file(d, p) == p \in DOMAIN d /\ d[p].t # "dir"

\* The directory with entry p set to e.
Put(d, p, e) == [n \in DOMAIN d \cup {p} |-> IF n = p THEN e ELSE d[n]]
\* The directory without entry p.
Remove(d, p) == [n \in DOMAIN d \ {p} |-> d[n]]

\* The frame that starts at a byte offset of a stream, if one does.
FrameAt(frames, offset) ==
    LET is == {i \in 1..Len(frames) : SumBytes(SubSeq(frames, 1, i - 1)) = offset}
    IN  IF is = {} THEN None ELSE Some(frames[CHOOSE i \in is : TRUE])

\* ------------------------------------------------------------------------
\* Indexes.  A node is [oid, offset, kind].

Node(oid, offset, kind) == [oid |-> oid, offset |-> offset, kind |-> kind]

\* RamIndex: a map from oid to [offset, kind].
RamIndex_new == <<>>

\* RamIndex::insert (the inherent method, which PairIndex::insert resolves
\* to): BTreeMap::insert, replacing an entry of the same key.
RamIndex_insert(ram, key, offset, kind) ==
    [o \in DOMAIN ram \cup {key} |->
        IF o = key THEN [offset |-> offset, kind |-> kind] ELSE ram[o]]

\* IndexUpdate for RamIndex: insert that panics on a key that is present.
RamIndex_update(ram, key, offset, kind) ==
    IF key \in DOMAIN ram THEN [panic |-> TRUE, ram |-> ram]
    ELSE [panic |-> FALSE, ram |-> RamIndex_insert(ram, key, offset, kind)]

\* Iteration of a RamIndex: in key order.
RECURSIVE RamIter(_)
RamIter(ram) ==
    IF DOMAIN ram = {} THEN <<>>
    ELSE LET m == CHOOSE x \in DOMAIN ram : \A y \in DOMAIN ram \ {x} : OidLess(x, y)
         IN  <<Node(m, ram[m].offset, ram[m].kind)>>
                 \o RamIter([o \in DOMAIN ram \ {m} |-> ram[o]])

\* compute_top: top[b] is the index of the first node whose first byte
\* exceeds b, or the number of nodes.
compute_top(nodes, b) ==
    LET over == {i \in 1..Len(nodes) : nodes[i].oid[1] > b}
    IN  IF over = {} THEN Len(nodes)
        ELSE (CHOOSE i \in over : \A j \in over : i <= j) - 1

\* Mutant of FileIndex_find: the bucket of first byte 0 starts at top[0].
FileIndex_find_low_top(nodes, key) ==
    LET low == compute_top(nodes, IF key[1] > 0 THEN key[1] - 1 ELSE 0)
        high == compute_top(nodes, key[1])
        hits == {i \in (low + 1)..high : nodes[i].oid = key}
    IN  IF hits = {} THEN None
        ELSE Some(CHOOSE i \in hits : \A j \in hits : i <= j)

\* FileIndex::find: the position of a key, searched in its bucket.
FileIndex_find(nodes, key) ==
    LET low == IF key[1] > 0 THEN compute_top(nodes, key[1] - 1) ELSE 0
        high == compute_top(nodes, key[1])
        hits == {i \in (low + 1)..high : nodes[i].oid = key}
    IN  IF hits = {} THEN None
        ELSE Some(CHOOSE i \in hits : \A j \in hits : i <= j)

\* Index for FileIndex: get
FileIndex_get(nodes, key) ==
    IF FileIndex_find(nodes, key) = None THEN None
    ELSE LET n == nodes[FileIndex_find(nodes, key)[1]]
         IN  Some([offset |-> n.offset, kind |-> n.kind])

\* sort_by_key(|n| n.oid): a stable sort.
RECURSIVE InsertNode(_, _)
InsertNode(sorted, n) ==
    IF sorted = <<>> THEN <<n>>
    ELSE IF OidLess(n.oid, sorted[Len(sorted)].oid)
         THEN InsertNode(SubSeq(sorted, 1, Len(sorted) - 1), n) \o <<sorted[Len(sorted)]>>
         ELSE sorted \o <<n>>

RECURSIVE SortByOid(_)
SortByOid(s) ==
    IF s = <<>> THEN <<>>
    ELSE InsertNode(SortByOid(SubSeq(s, 1, Len(s) - 1)), s[Len(s)])

\* Mutant of FileIndex_load: file_size is not compared with the expected size.
FileIndex_load_any_size(d, path, size) ==
    IF path \notin DOMAIN d \/ d[path].t = "dir"
    THEN [ok |-> FALSE, err |-> "Io", nodes |-> <<>>]
    ELSE IF d[path].t # "idx"
    THEN [ok |-> FALSE,
          err |-> IF FileLen(d[path]) < 8 THEN "Io" ELSE "InvalidIndex",
          nodes |-> <<>>]
    ELSE IF d[path].bytes < 8
    THEN [ok |-> FALSE, err |-> "Io", nodes |-> <<>>]
    ELSE IF d[path].magic # IdxMagic
    THEN [ok |-> FALSE, err |-> "InvalidIndex", nodes |-> <<>>]
    ELSE IF d[path].bytes < 12
    THEN [ok |-> FALSE, err |-> "Io", nodes |-> <<>>]
    ELSE IF d[path].version # IdxVersion
    THEN [ok |-> FALSE, err |-> "InvalidIndex", nodes |-> <<>>]
    ELSE IF d[path].bytes < IndexBytes(d[path].nodes)
    THEN [ok |-> FALSE, err |-> "Io", nodes |-> <<>>]
    ELSE [ok |-> TRUE, err |-> "", nodes |-> d[path].nodes]

\* FileIndex::load: [ok, err, nodes].
FileIndex_load(d, path, size) ==
    IF path \notin DOMAIN d \/ d[path].t = "dir"
    THEN [ok |-> FALSE, err |-> "Io", nodes |-> <<>>]
    ELSE IF d[path].t # "idx"
    THEN [ok |-> FALSE,
          err |-> IF FileLen(d[path]) < 8 THEN "Io" ELSE "InvalidIndex",
          nodes |-> <<>>]
    ELSE IF d[path].bytes < 8
    THEN [ok |-> FALSE, err |-> "Io", nodes |-> <<>>]
    ELSE IF d[path].magic # IdxMagic
    THEN [ok |-> FALSE, err |-> "InvalidIndex", nodes |-> <<>>]
    ELSE IF d[path].bytes < 12
    THEN [ok |-> FALSE, err |-> "Io", nodes |-> <<>>]
    ELSE IF d[path].version # IdxVersion
    THEN [ok |-> FALSE, err |-> "InvalidIndex", nodes |-> <<>>]
    ELSE IF d[path].bytes < 16
    THEN [ok |-> FALSE, err |-> "Io", nodes |-> <<>>]
    ELSE IF d[path].file_size # size
    THEN [ok |-> FALSE, err |-> "InvalidIndex", nodes |-> <<>>]
    ELSE IF d[path].bytes < IndexBytes(d[path].nodes)
    THEN [ok |-> FALSE, err |-> "Io", nodes |-> <<>>]
    ELSE [ok |-> TRUE, err |-> "", nodes |-> d[path].nodes]

\* PairIndex: [file |-> nodes, ram |-> RamIndex].
PairIndex_empty == [file |-> <<>>, ram |-> RamIndex_new]

PairIndex_load(d, path, size) ==
    LET l == FileIndex_load(d, path, size)
    IN  [ok |-> l.ok, err |-> l.err, index |-> [file |-> l.nodes, ram |-> RamIndex_new]]

PairIndex_is_dirty(ix) == DOMAIN ix.ram # {}

\* Mutant of PairIndex_contains_key: the file layer is not consulted.
PairIndex_contains_key_ram_only(ix, key) == key \in DOMAIN ix.ram

PairIndex_contains_key(ix, key) ==
    key \in DOMAIN ix.ram \/ FileIndex_find(ix.file, key) # None

\* Mutant of PairIndex_get: the ram overlay is not consulted.
PairIndex_get_file_only(ix, key) == FileIndex_get(ix.file, key)

PairIndex_get(ix, key) ==
    IF key \in DOMAIN ix.ram THEN Some(ix.ram[key])
    ELSE FileIndex_get(ix.file, key)

\* Mutant of PairIndex_insert: the entry is put in the file layer.
PairIndex_insert_in_file(ix, key, offset, kind) ==
    [ix EXCEPT !.file = SortByOid(Append(ix.file, Node(key, offset, kind)))]

\* IndexUpdate for PairIndex: insert
PairIndex_insert(ix, key, offset, kind) ==
    [ix EXCEPT !.ram = RamIndex_insert(ix.ram, key, offset, kind)]

\* Mutant of PairIndex_iter: the ram entries only.
PairIndex_iter_ram_only(ix) == RamIter(ix.ram)

\* IntoIterator for &PairIndex: the file entries, then the ram entries.
PairIndex_iter(ix) == ix.file \o RamIter(ix.ram)

\* FileIndex::save under an I/O fault.  The steps are: create the .tmp
\* file, write the index through a BufWriter, drop the BufWriter (which
\* writes the buffer out and ignores a failure), rename .tmp over the
\* destination.  fault.step names the step that fails or after which the
\* process dies; fault.cut is the number of bytes that had reached the .tmp
\* file.  Result: [r, disk].
FileIndex_save_as(d, path, tmp_name, whole, part, fault) ==
    CASE fault.step = "create" -> [r |-> "Io", disk |-> d]
      [] fault.step = "crash_tmp" -> [r |-> "crash", disk |-> Put(d, tmp_name, part)]
      [] fault.step = "drop" ->
            [r |-> "Ok", disk |-> Put(Remove(d, tmp_name), path, part)]
      [] fault.step = "crash_written" ->
            [r |-> "crash", disk |-> Put(d, tmp_name, whole)]
      [] fault.step = "rename" -> [r |-> "Io", disk |-> Put(d, tmp_name, whole)]
      [] fault.step = "crash_installed" ->
            [r |-> "crash", disk |-> Put(Remove(d, tmp_name), path, whole)]
      [] OTHER -> [r |-> "Ok", disk |-> Put(Remove(d, tmp_name), path, whole)]

\* The index file of the sorted nodes, of which only the first `cut` bytes
\* (fewer than all) exist.
PartOf(whole, cut) ==
    [whole EXCEPT !.bytes = MinInt(cut, IndexBytes(whole.nodes) - 1)]

FileIndex_save_nodes(d, path, whole, fault) ==
    FileIndex_save_as(d, path, tmpify(path), whole, PartOf(whole, fault.cut), fault)

FileIndex_save(d, path, size, iter, fault) ==
    FileIndex_save_nodes(d, path, IdxFile(size, SortByOid(iter)), fault)

NoFault == [step |-> "none", cut |-> 0]

\* Mutant of PairIndex_save: the entries of the ram layer are not saved.
PairIndex_save_file_only(ix, d, path, size, fault) ==
    FileIndex_save(d, path, size, ix.file, fault)

\* PairIndex::save
PairIndex_save(ix, d, path, size, fault) ==
    FileIndex_save(d, path, size, PairIndex_iter(ix), fault)

\* ------------------------------------------------------------------------
\* ChunkFile: [name, index, buf, writable, size].

I32Max == 2147483647
\* `as u32` of a file position or length: the identity below 2^32, and all
\* positions of the model are below 2^31.
U32(x) == x

\* ChunkFile: [name, index, buf, writable, size, wbuf, fd]; wbuf is the
\* frames held in the buffer of the BufWriter of the state Write, fd the
\* mode the descriptor was opened in: "closed", "r" or "rw".
\* ChunkFile::open: [r, cf].
\* Mutant of ChunkFile_open_index: the error of the index load is returned
\* as it is.
ChunkFile_open_index_unwrapped(p, size, ld) ==
    IF ~ld.ok THEN [r |-> ld.err, cf |-> None]
    ELSE [r |-> "Ok",
          cf |-> Some([name |-> p, index |-> ld.index, buf |-> "None",
                       writable |-> FALSE, size |-> U32(size), wbuf |-> <<>>,
                       fd |-> "closed"])]

ChunkFile_open_index(p, size, ld) ==
    IF ~ld.ok
    THEN [r |-> IF ld.err = "InvalidIndex" THEN ld.err ELSE "InvalidIndex",
          cf |-> None]
    ELSE [r |-> "Ok",
          cf |-> Some([name |-> p, index |-> ld.index, buf |-> "None",
                       writable |-> FALSE, size |-> U32(size), wbuf |-> <<>>,
                       fd |-> "closed"])]

ChunkFile_open_sized(d, p, size) ==
    IF d[p].t = "dir" THEN [r |-> "CorruptPool", cf |-> None]
    ELSE IF size > I32Max THEN [r |-> "CorruptPool", cf |-> None]
    ELSE ChunkFile_open_index(p, size,
            PairIndex_load(d, WithExtension(p, IdxExt), U32(size)))

ChunkFile_open(d, p) == ChunkFile_open_sized(d, p, FileLen(d[p]))

\* ChunkFile::create: [r, cf, disk]; fault.step = "open" is a failure of
\* OpenOptions::open.
ChunkFile_create(d, p, fault) ==
    IF is_file(d, p) THEN [r |-> "panic", cf |-> None, disk |-> d]
    ELSE IF p \in DOMAIN d \/ fault.step = "open"
    THEN [r |-> "Io", cf |-> None, disk |-> d]
    ELSE [r |-> "Ok",
          cf |-> Some([name |-> p, index |-> PairIndex_empty, buf |-> "Write",
                       writable |-> TRUE, size |-> 0, wbuf |-> <<>>, fd |-> "rw"]),
          disk |-> Put(d, p, DataFile(<<>>))]

ChunkFile_contains_key(cf, key) == PairIndex_contains_key(cf.index, key)

\* BufWriter::flush_buf: the frames held in the buffer reach the file.
Drained(cf, d) ==
    IF cf.wbuf = <<>> THEN d
    ELSE Put(d, cf.name, DataFile(FramesOf(d[cf.name]) \o cf.wbuf))

\* The write of the buffer succeeds on a descriptor opened for writing, and
\* when there is nothing to write.
CanDrain(cf) == cf.wbuf = <<>> \/ cf.fd = "rw"

\* Mutant of ChunkFile_read: the writer is unwrapped without its buffer
\* being written.
ChunkFile_read_drops_buffer(cf, d, fault) ==
    IF cf.buf = "None"
    THEN IF cf.name \in DOMAIN d
         THEN [r |-> "Ok", cf |-> [cf EXCEPT !.buf = "Read", !.fd = "r"], disk |-> d]
         ELSE [r |-> "Io", cf |-> cf, disk |-> d]
    ELSE IF cf.buf = "Read" THEN [r |-> "Ok", cf |-> cf, disk |-> d]
    ELSE IF cf.wbuf # <<>> /\ (fault.step = "flush" \/ cf.fd # "rw")
    THEN [r |-> "CorruptPool",
          cf |-> [cf EXCEPT !.buf = "None", !.wbuf = <<>>, !.fd = "closed"],
          disk |-> d]
    ELSE [r |-> "Ok", cf |-> [cf EXCEPT !.buf = "Read", !.wbuf = <<>>],
          disk |-> d]

\* ChunkFile::read: [r, cf, disk]; fault.step = "flush" is a failure of the
\* write of the buffer in BufWriter::into_inner.
ChunkFile_read(cf, d, fault) ==
    IF cf.buf = "None"
    THEN IF cf.name \in DOMAIN d
         THEN [r |-> "Ok", cf |-> [cf EXCEPT !.buf = "Read", !.fd = "r"], disk |-> d]
         ELSE [r |-> "Io", cf |-> cf, disk |-> d]
    ELSE IF cf.buf = "Read" THEN [r |-> "Ok", cf |-> cf, disk |-> d]
    ELSE IF cf.wbuf # <<>> /\ (fault.step = "flush" \/ cf.fd # "rw")
    THEN [r |-> "CorruptPool",
          cf |-> [cf EXCEPT !.buf = "None", !.wbuf = <<>>, !.fd = "closed"],
          disk |-> d]
    ELSE [r |-> "Ok", cf |-> [cf EXCEPT !.buf = "Read", !.wbuf = <<>>],
          disk |-> Drained(cf, d)]

\* The branch of ChunkFile::write of a writable ChunkFile: the descriptor of
\* the reader is taken for the writer.
\* Mutant of ChunkFile_write_steal: a ChunkFile without a descriptor is given
\* a writer.
ChunkFile_write_steal_any(cf) ==
    [r |-> "Ok", cf |-> [cf EXCEPT !.buf = "Write", !.fd = "rw"]]

ChunkFile_write_steal(cf) ==
    IF cf.buf = "Read" THEN [r |-> "Ok", cf |-> [cf EXCEPT !.buf = "Write"]]
    ELSE [r |-> "panic", cf |-> cf]

\* Mutant of ChunkFile_write: the reader of a writable ChunkFile is kept.
ChunkFile_write_keeps_reader(cf, d) ==
    IF cf.buf = "Write" THEN [r |-> "Ok", cf |-> cf]
    ELSE IF cf.writable
    THEN [r |-> ChunkFile_write_steal(cf).r, cf |-> cf]
    ELSE IF is_file(d, cf.name)
         THEN [r |-> "Ok", cf |-> [cf EXCEPT !.buf = "Write", !.fd = "rw"]]
         ELSE [r |-> "Io", cf |-> [cf EXCEPT !.buf = "None", !.fd = "closed"]]

\* ChunkFile::write: [r, cf].
ChunkFile_write(cf, d) ==
    IF cf.buf = "Write" THEN [r |-> "Ok", cf |-> cf]
    ELSE IF cf.writable
    THEN ChunkFile_write_steal(cf)
    ELSE IF is_file(d, cf.name)
         THEN [r |-> "Ok", cf |-> [cf EXCEPT !.buf = "Write", !.fd = "rw"]]
         ELSE [r |-> "Io", cf |-> [cf EXCEPT !.buf = "None", !.fd = "closed"]]

\* ChunkFile::find: [r, chunk, cf, disk]; r = "None" when the key is not
\* indexed.
ChunkFile_find_frame(rd, fr) ==
    IF fr = None
    THEN [r |-> "CorruptChunk", chunk |-> None, cf |-> rd.cf, disk |-> rd.disk]
    ELSE [r |-> "Ok", chunk |-> Some(read_chunk(fr[1])), cf |-> rd.cf, disk |-> rd.disk]

ChunkFile_find_read(info, rd) ==
    IF rd.r # "Ok" THEN [r |-> rd.r, chunk |-> None, cf |-> rd.cf, disk |-> rd.disk]
    ELSE ChunkFile_find_frame(rd,
            FrameAt(FramesOf(rd.disk[rd.cf.name]), info[1].offset))

ChunkFile_find_info(cf, d, info, fault) ==
    IF info = None THEN [r |-> "None", chunk |-> None, cf |-> cf, disk |-> d]
    ELSE ChunkFile_find_read(info, ChunkFile_read(cf, d, fault))

ChunkFile_find(cf, d, key, fault) ==
    ChunkFile_find_info(cf, d, PairIndex_get(cf.index, key), fault)

\* Mutant of SeekEnd: the position of a descriptor that was never moved.
SeekEnd_at_start(cf, d) == 0

\* fd.seek(SeekFrom::End(0)): the length of the file.
SeekEnd(cf, d) == FileLen(d[cf.name])

\* ChunkFile::add: [r, cf, disk, pos]; d is the directory after the seek to
\* the end has written the buffer; fault.step = "flush" is a failure of the
\* write of the buffer in fd.seek(SeekFrom::Current(0)), which also fails
\* on a descriptor opened for reading.
\* Mutant of ChunkFile_add_frame: the entry gets the position after the frame.
ChunkFile_add_frame_after(cf, chunk, pos, d2) ==
    [r |-> "Ok",
     cf |-> [cf EXCEPT
               !.index = PairIndex_insert(cf.index, chunk.oid,
                                          U32(FileLen(d2[cf.name])), chunk.kind),
               !.size = U32(FileLen(d2[cf.name])),
               !.wbuf = <<>>],
     disk |-> d2, pos |-> pos]

ChunkFile_add_frame(cf, chunk, pos, d2) ==
    [r |-> "Ok",
     cf |-> [cf EXCEPT
               !.index = PairIndex_insert(cf.index, chunk.oid, pos, chunk.kind),
               !.size = U32(FileLen(d2[cf.name])),
               !.wbuf = <<>>],
     disk |-> d2, pos |-> pos]

ChunkFile_add_writer(w, d, chunk, pos, fault) ==
    IF w.r # "Ok" THEN [r |-> w.r, cf |-> w.cf, disk |-> d, pos |-> 0]
    ELSE IF fault.step = "flush" \/ w.cf.fd # "rw"
    THEN [r |-> "Io", cf |-> [w.cf EXCEPT !.wbuf = <<write_chunk(chunk)>>],
          disk |-> d, pos |-> 0]
    ELSE ChunkFile_add_frame(w.cf, chunk, pos,
            Put(d, w.cf.name,
                DataFile(Append(FramesOf(d[w.cf.name]), write_chunk(chunk)))))

ChunkFile_add(cf, d, chunk, fault) ==
    IF cf.buf = "Write" /\ ~CanDrain(cf)
    THEN [r |-> "Io", cf |-> cf, disk |-> d, pos |-> 0]
    ELSE ChunkFile_add_writer(ChunkFile_write(cf, d), Drained(cf, d), chunk,
                              U32(SeekEnd(cf, Drained(cf, d))), fault)

\* ChunkFile::flush: [r, cf, disk].
\* Mutant of ChunkFile_flush_loaded: the reloaded index does not replace the
\* index of the ChunkFile.
ChunkFile_flush_loaded_kept(cf, d, ld) ==
    IF ~ld.ok THEN [r |-> ld.err, cf |-> cf, disk |-> d]
    ELSE [r |-> "Ok", cf |-> cf, disk |-> d]

ChunkFile_flush_loaded(cf, d, ld) ==
    IF ~ld.ok THEN [r |-> ld.err, cf |-> cf, disk |-> d]
    ELSE [r |-> "Ok", cf |-> [cf EXCEPT !.index = ld.index], disk |-> d]

ChunkFile_flush_saved(cf, index_name, sv, fault) ==
    IF sv.r # "Ok" THEN [r |-> sv.r, cf |-> cf, disk |-> sv.disk]
    ELSE IF fault.step = "load" THEN [r |-> "Io", cf |-> cf, disk |-> sv.disk]
    ELSE ChunkFile_flush_loaded(cf, sv.disk, PairIndex_load(sv.disk, index_name, cf.size))

ChunkFile_flush_dirty(cf, d, index_name, fault) ==
    ChunkFile_flush_saved(cf, index_name,
        PairIndex_save(cf.index, d, index_name, cf.size, fault), fault)

\* wr.flush()
WriterFlushed(cf) == [cf EXCEPT !.wbuf = <<>>]

ChunkFile_flush(cf, d, fault) ==
    IF ~CanDrain(cf) THEN [r |-> "Io", cf |-> cf, disk |-> d]
    ELSE IF ~PairIndex_is_dirty(cf.index)
    THEN [r |-> "Ok", cf |-> WriterFlushed(cf), disk |-> Drained(cf, d)]
    ELSE ChunkFile_flush_dirty(WriterFlushed(cf), Drained(cf, d),
                               WithExtension(cf.name, IdxExt), fault)

\* ------------------------------------------------------------------------
\* AdumpPool: [newfile, limit, dirty, cfiles, next_file].

\* Mutant of DataEntries: only the names the regex matches.
DataEntries_regex_only(d) == {n \in DOMAIN d : RegexCapture(n) # None}

\* The entries scan_backups takes for pool files: extension "data".
DataEntries(d) == {n \in DOMAIN d : Extension(n) = Some(DataExt)}

\* scan_backups: next_file, from the names the regex matches.
ScanNextFile(d) ==
    LET nums == {ParseU32(RegexCapture(n)[1]) + 1 :
                    n \in {m \in DataEntries(d) : RegexCapture(m) # None}}
    IN  IF nums = {} THEN 0 ELSE MaxOf(nums)

\* scan_backups: open the sorted paths in turn, up to the first failure.
OpenRest(o, rest) ==
    IF rest.r # "Ok" THEN rest
    ELSE [r |-> "Ok", cfiles |-> <<o.cf[1]>> \o rest.cfiles]

RECURSIVE OpenAll(_, _)
OpenNext(d, paths, o) ==
    IF o.r # "Ok" THEN [r |-> o.r, cfiles |-> <<>>]
    ELSE OpenRest(o, OpenAll(d, Tail(paths)))

OpenAll(d, paths) ==
    IF paths = <<>> THEN [r |-> "Ok", cfiles |-> <<>>]
    ELSE OpenNext(d, paths, ChunkFile_open(d, paths[1]))

scan_backups_opened(d, all) ==
    [r |-> all.r, cfiles |-> all.cfiles, next_file |-> ScanNextFile(d)]

scan_backups(d) == scan_backups_opened(d, OpenAll(d, SortNames(DataEntries(d))))

AdumpPool_open_scanned(pr, sc) ==
    IF sc.r # "Ok" THEN [r |-> sc.r, pool |-> None]
    ELSE [r |-> "Ok",
          pool |-> Some([newfile |-> pr.newfile, limit |-> pr.limit,
                         dirty |-> FALSE, cfiles |-> sc.cfiles,
                         next_file |-> sc.next_file])]

\* AdumpPool::open: [r, pool].
AdumpPool_open(d, pr) == AdumpPool_open_scanned(pr, scan_backups(d))

\* Mutant of needs_new_file: the limit is not consulted.
needs_new_file_no_limit(pl, size) ==
    IF pl.newfile /\ ~pl.dirty THEN TRUE ELSE pl.cfiles = <<>>

\* AdumpPool::needs_new_file
needs_new_file(pl, size) ==
    IF pl.newfile /\ ~pl.dirty THEN TRUE
    ELSE IF pl.cfiles = <<>> THEN TRUE
    ELSE pl.cfiles[Len(pl.cfiles)].size + size > pl.limit

\* AdumpPool::add: [r, pool, disk, created, pos].
AdumpPool_add_result(pl, made, ad) ==
    [r |-> ad.r,
     pool |-> [pl EXCEPT !.cfiles = [pl.cfiles EXCEPT ![Len(pl.cfiles)] = ad.cf]],
     disk |-> ad.disk, created |-> made, pos |-> ad.pos]

\* cfiles.last_mut(), cfile.add(chunk)
AdumpPool_add_last(pl, d, chunk, made, fault) ==
    AdumpPool_add_result(pl, made,
        ChunkFile_add(pl.cfiles[Len(pl.cfiles)], d, chunk, fault))

\* cfiles.push(ChunkFile::create(name)?), with next_file incremented already
AdumpPool_add_created(pl, d, chunk, name, cr, fault) ==
    IF cr.r # "Ok"
    THEN [r |-> cr.r, pool |-> pl, disk |-> d, created |-> <<>>, pos |-> 0]
    ELSE AdumpPool_add_last([pl EXCEPT !.cfiles = Append(pl.cfiles, cr.cf[1])],
                            cr.disk, chunk, <<name>>, fault)

AdumpPool_add_named(pl, d, chunk, name, fault) ==
    AdumpPool_add_created([pl EXCEPT !.next_file = U32(pl.next_file + 1)],
                          d, chunk, name, ChunkFile_create(d, name, fault), fault)

AdumpPool_add(pl, d, chunk, fault) ==
    IF needs_new_file(pl, write_size(chunk))
    THEN AdumpPool_add_named(pl, d, chunk, PoolFileName(pl.next_file), fault)
    ELSE AdumpPool_add_last(pl, d, chunk, <<>>, fault)

\* AdumpPool::find: [r, chunk, cfiles, disk], scanning from the i-th
\* ChunkFile.
RECURSIVE FindFrom(_, _, _, _, _)
FindNext(cfiles, i, d, key, fault, f) ==
    IF f.r = "None" THEN FindFrom(cfiles, i + 1, d, key, fault)
    ELSE [r |-> f.r, chunk |-> f.chunk, cfiles |-> [cfiles EXCEPT ![i] = f.cf],
          disk |-> f.disk]

FindFrom(cfiles, i, d, key, fault) ==
    IF i > Len(cfiles)
    THEN [r |-> "MissingChunk", chunk |-> None, cfiles |-> cfiles, disk |-> d]
    ELSE FindNext(cfiles, i, d, key, fault, ChunkFile_find(cfiles[i], d, key, fault))

\* Mutant of AdumpPool_find: the first ChunkFile is not searched.
AdumpPool_find_skips_first(pl, d, key, fault) == FindFrom(pl.cfiles, 2, d, key, fault)

AdumpPool_find(pl, d, key, fault) == FindFrom(pl.cfiles, 1, d, key, fault)

\* The drop of the ChunkFiles: the drop of a BufWriter writes its buffer.
RECURSIVE DropFrom(_, _, _)
DropFrom(cfiles, i, d) ==
    IF i > Len(cfiles) THEN d
    ELSE DropFrom(cfiles, i + 1,
                  IF CanDrain(cfiles[i]) THEN Drained(cfiles[i], d) ELSE d)

\* AdumpPool::contains_key
AdumpPool_contains_key(pl, key) ==
    \E i \in 1..Len(pl.cfiles) : ChunkFile_contains_key(pl.cfiles[i], key)

\* The oids of a sequence of nodes.
OidsOf(nodes) == [i \in 1..Len(nodes) |-> nodes[i].oid]

\* Mutant of BackOids: the kind of the entry is not looked at.
BackOids_any_kind(nodes) == OidsOf(nodes)

\* The inner loop of AdumpPool::backups: the oids of the entries of kind
\* back, in the order of the iteration.
BackOids(nodes) == OidsOf(SelectSeq(nodes, LAMBDA n : n.kind = KindBack))

\* AdumpPool::backups: the entries of each ChunkFile's index in turn.
RECURSIVE BackupsFrom(_, _)
BackupsFrom(cfiles, i) ==
    IF i > Len(cfiles) THEN <<>>
    ELSE BackOids(PairIndex_iter(cfiles[i].index)) \o BackupsFrom(cfiles, i + 1)

AdumpPool_backups(pl) == BackupsFrom(pl.cfiles, 1)

\* AdumpPool::flush: [r, cfiles, disk], flushing from the i-th ChunkFile;
\* the fault, if any, hits the save of ChunkFile number `at`.
RECURSIVE FlushFrom(_, _, _, _, _)
FlushNext(cfiles, i, fault, at, f) ==
    IF f.r # "Ok"
    THEN [r |-> f.r, cfiles |-> [cfiles EXCEPT ![i] = f.cf], disk |-> f.disk]
    ELSE FlushFrom([cfiles EXCEPT ![i] = f.cf], i + 1, f.disk, fault, at)

FlushFrom(cfiles, i, d, fault, at) ==
    IF i > Len(cfiles) THEN [r |-> "Ok", cfiles |-> cfiles, disk |-> d]
    ELSE FlushNext(cfiles, i, fault, at,
            ChunkFile_flush(cfiles[i], d, IF i = at THEN fault ELSE NoFault))

AdumpPool_flush(pl, d, fault, at) == FlushFrom(pl.cfiles, 1, d, fault, at)

\* ------------------------------------------------------------------------
\* The state.

\* No Chunk under test, no stream.
NoChunk == [c |-> None, built |-> "", from |-> None, seen |-> {}]
\* A pool directory whose metadata the model holds in props.
NoTarget == [base |-> "dir", meta |-> <<>>, uuid |-> None, parsed |-> None]
NoKind == [text |-> <<>>, k |-> None]
NoInd == [limit |-> 0, buffers |-> <<>>, level |-> 0, sink |-> {}, leaves |-> <<>>,
          period |-> 0, root |-> None, start |-> 0]
NoWide == [limit |-> 0, build |-> "release", files |-> <<>>, adds |-> 0]
NoStream == [bytes |-> <<>>, wrote |-> <<>>, ends |-> <<>>, rd |-> 0, got |-> <<>>]

VARIABLES
    disk,        \* the pool directory
    props,       \* metadata/props.txt: [newfile, limit]
    pool,        \* the AdumpPool of the running session: None or Some(pool)
    result,      \* the last operation and its outcome: [op, r]
    added,       \* history: the chunks whose add returned Ok
    pending,     \* history: the chunks added in this session since its last flush
    abandoned,   \* history: a session ended with chunks pending
    presented,   \* history: the oids the writer presented
    created,     \* history: the names of the pool-files add created
    faults,      \* the number of I/O faults and process deaths so far
    addLog,      \* history: the adds of this session
    index,       \* a PairIndex used on its own (r1, r2, r3 of test_index)
    cell,        \* a Chunk used on its own, and what its accessors returned
    stream,      \* a stream of frames (sample.data of test_write) and its reader
    target,      \* the path given to the PoolBuilder, and the files of metadata/
    kind,        \* the text given to Kind::new, and the Kind it made
    ind,         \* an indirect::Write, its sink, and the oids given to it
    wide         \* the pool-files of a pool by their lengths, in units of 16 bytes

vars == <<disk, props, pool, result, added, pending, abandoned, presented,
          created, faults, addLog, index, cell, stream, target, kind, ind, wide>>

MetadataName == <<"m", "e", "t", "a", "d", "a", "t", "a">>
SeenName == <<"s", "e", "e", "n">>

\* PoolBuilder::create: the directory of a new pool.
NewPoolDir == [n \in {MetadataName, SeenName} |-> DirEnt]

\* The values given to set_limit and set_newfile.
Limits == {64, 150}

\* All frames in the directory.
CountFrames(d) ==
    LET ns == {n \in DOMAIN d : d[n].t = "data"}
        RECURSIVE Sum(_)
        Sum(S) == IF S = {} THEN 0
                  ELSE LET n == CHOOSE x \in S : TRUE
                       IN  Len(d[n].frames) + Sum(S \ {n})
    IN  Sum(ns)

InitWith(extra) ==
    /\ disk = [n \in DOMAIN NewPoolDir \cup DOMAIN extra |->
                  IF n \in DOMAIN extra THEN extra[n] ELSE NewPoolDir[n]]
    /\ props \in [newfile : BOOLEAN, limit : Limits]
    /\ pool = None
    /\ result = [op |-> "create", r |-> "Ok"]
    /\ added = {}
    /\ pending = {}
    /\ abandoned = FALSE
    /\ presented = {}
    /\ created = <<>>
    /\ faults = 0
    /\ addLog = <<>>
    /\ index = PairIndex_empty
    /\ cell = NoChunk
    /\ stream = NoStream
    /\ target = NoTarget
    /\ kind = NoKind
    /\ ind = NoInd
    /\ wide = NoWide

Init == InitWith(<<>>)

\* AdumpPool::open, starting a session.
Open ==
    /\ pool = None
    /\ \E o \in {AdumpPool_open(disk, props)} :
           /\ pool' = o.pool
           /\ result' = [op |-> "open", r |-> o.r]
    /\ addLog' = <<>>
    /\ UNCHANGED <<disk, props, added, pending, abandoned, presented, created, faults,
                   index, cell, stream, target, kind, ind, wide>>

\* The end of the process after a panic, or the drop of the pool.
EndSession ==
    /\ pool' = None
    /\ abandoned' = (abandoned \/ pending # {})
    /\ pending' = {}

\* The name of the last ChunkFile of a pool.
LastName(pl) == pl.cfiles[Len(pl.cfiles)].name

\* The faults a behaviour may hold: of the failures of the write of a
\* buffer, and of the others.
FaultLimit(fault) == IF fault.step = "flush" THEN MaxBufFaults ELSE MaxFaults

\* AdumpPool::add, with the fault that hits it (NoFault: none).
AddWith(chunk, fault) ==
    /\ pool # None
    /\ CountFrames(disk) < MaxFrames
    /\ fault # NoFault => faults < FaultLimit(fault)
    /\ faults' = IF fault = NoFault THEN faults ELSE faults + 1
    /\ \E a \in {AdumpPool_add(pool[1], disk, chunk, fault)} :
           /\ disk' = IF a.r = "panic" THEN DropFrom(a.pool.cfiles, 1, a.disk)
                      ELSE a.disk
           /\ result' = [op |-> "add", r |-> a.r]
           /\ created' = created \o a.created
           /\ presented' = presented \cup {chunk.oid}
           /\ IF a.r = "panic"
              THEN EndSession /\ UNCHANGED <<added, addLog>>
              ELSE /\ pool' = Some(a.pool)
                   /\ UNCHANGED abandoned
                   /\ IF a.r = "Ok"
                      THEN /\ added' = added \cup {chunk}
                           /\ pending' = pending \cup {chunk}
                           /\ addLog' = Append(addLog,
                                [name |-> LastName(a.pool),
                                 oid |-> chunk.oid,
                                 pos |-> a.pos,
                                 fsize |-> FrameBytes(write_chunk(chunk)),
                                 fresh |-> a.created # <<>>,
                                 prev |-> IF pool[1].cfiles = <<>> THEN None
                                          ELSE Some(pool[1].cfiles[Len(pool[1].cfiles)].size),
                                 grew |-> {n \in DOMAIN a.disk :
                                             n \notin DOMAIN disk \/ a.disk[n] # disk[n]},
                                 flen |-> IF LastName(a.pool) \in DOMAIN disk
                                          THEN FileLen(disk[LastName(a.pool)])
                                          ELSE 0])
                      ELSE UNCHANGED <<added, pending, addLog>>
    /\ UNCHANGED <<props, index, cell, stream, target, kind, ind, wide>>

\* Walker::encode_file, for one chunk: add it unless the pool contains it.
Present(chunk) ==
    /\ pool # None
    /\ IF AdumpPool_contains_key(pool[1], chunk.oid)
       THEN /\ result' = [op |-> "dup", r |-> "Ok"]
            /\ presented' = presented \cup {chunk.oid}
            /\ UNCHANGED <<disk, props, pool, added, pending, abandoned, created,
                           faults, addLog, index, cell, stream, target, kind, ind, wide>>
       ELSE AddWith(chunk, NoFault)

\* AdumpPool::find, with the fault that hits it (NoFault: none).
FindWith(key, fault) ==
    /\ pool # None
    /\ fault # NoFault => faults < FaultLimit(fault)
    /\ faults' = IF fault = NoFault THEN faults ELSE faults + 1
    /\ \E f \in {AdumpPool_find(pool[1], disk, key, fault)} :
           /\ pool' = Some([pool[1] EXCEPT !.cfiles = f.cfiles])
           /\ disk' = f.disk
           /\ result' = [op |-> "find", r |-> f.r]
    /\ UNCHANGED <<props, added, pending, abandoned, presented, created,
                   addLog, index, cell, stream, target, kind, ind, wide>>

Find(key) == FindWith(key, NoFault)

\* AdumpPool::contains_key
ContainsKey(key) ==
    /\ pool # None
    /\ result' = [op |-> "contains_key",
                  r |-> IF AdumpPool_contains_key(pool[1], key) THEN "true" ELSE "false"]
    /\ UNCHANGED <<disk, props, pool, added, pending, abandoned, presented,
                   created, faults, addLog, index, cell, stream, target, kind, ind, wide>>

\* AdumpPool::backups
Backups ==
    /\ pool # None
    /\ result' = [op |-> "backups",
                  r |-> IF AdumpPool_backups(pool[1]) = <<>> THEN "none" ELSE "some"]
    /\ UNCHANGED <<disk, props, pool, added, pending, abandoned, presented,
                   created, faults, addLog, index, cell, stream, target, kind, ind, wide>>

\* AdumpPool::flush, with the fault that hits it (NoFault: none).
FlushWith(fault, at) ==
    /\ pool # None
    /\ fault # NoFault => faults < MaxFaults
    /\ faults' = IF fault = NoFault THEN faults ELSE faults + 1
    /\ \E f \in {AdumpPool_flush(pool[1], disk, fault, at)} :
           /\ disk' = f.disk
           /\ result' = [op |-> "flush", r |-> f.r]
           /\ IF f.r = "crash"
              THEN EndSession
              ELSE /\ pool' = Some([pool[1] EXCEPT !.cfiles = f.cfiles])
                   /\ pending' = IF f.r = "Ok" THEN {} ELSE pending
                   /\ UNCHANGED abandoned
    /\ UNCHANGED <<props, added, presented, created, addLog, index, cell, stream, target, kind, ind, wide>>

Flush == FlushWith(NoFault, 0)

\* The pool goes out of scope: the session ends.
Close ==
    /\ pool # None
    /\ EndSession
    /\ disk' = DropFrom(pool[1].cfiles, 1, disk)
    /\ result' = [op |-> "close", r |-> "Ok"]
    /\ UNCHANGED <<props, added, presented, created, faults, addLog, index, cell, stream, target, kind, ind, wide>>

Next ==
    \/ Open
    \/ \E c \in Chunks : Present(c)
    \/ \E k \in Oids \cup {AbsentOid} : Find(k)
    \/ \E k \in Oids \cup {AbsentOid} : ContainsKey(k)
    \/ Backups
    \/ Flush
    \/ Close

Spec == Init /\ [][Next]_vars

\* The faults of a flush: the step of FileIndex::save (or the reload after
\* it) that fails or at which the process dies, and the bytes of the index
\* that had reached the .tmp file.
FlushFaults ==
    [step : {"crash_tmp", "drop"}, cut : {0, 16, 1044}]
        \cup [step : {"create", "crash_written", "rename", "crash_installed", "load"},
              cut : {0}]

\* A flush in which the save of one dirty ChunkFile is hit by a fault.
FlushFault ==
    /\ pool # None
    /\ \E at \in 1..Len(pool[1].cfiles) :
          /\ PairIndex_is_dirty(pool[1].cfiles[at].index)
          /\ \E fault \in FlushFaults : FlushWith(fault, at)

\* An add whose creation of the new pool-file fails.
AddFault ==
    /\ pool # None
    /\ \E c \in Chunks :
          /\ ~AdumpPool_contains_key(pool[1], c.oid)
          /\ needs_new_file(pool[1], write_size(c))
          /\ AddWith(c, [step |-> "open", cut |-> 0])

NextIO == Next \/ FlushFault \/ AddFault

\* The pool under I/O failures and process death.
SpecIO == Init /\ [][NextIO]_vars

\* The fault of the write of the buffer of a BufWriter.
FlushFails == [step |-> "flush", cut |-> 0]

\* An add whose frame stays in the buffer of the writer: the write of the
\* buffer fails.
AddBufFault ==
    /\ pool # None
    /\ \E c \in Chunks :
          /\ ~AdumpPool_contains_key(pool[1], c.oid)
          /\ AdumpPool_add(pool[1], disk, c, NoFault).r = "Ok"
          /\ AdumpPool_add(pool[1], disk, c, FlushFails).r = "Io"
          /\ AddWith(c, FlushFails)

\* A find whose flip of the writer to a reader fails.
FindBufFault ==
    /\ pool # None
    /\ \E k \in Oids :
          /\ AdumpPool_find(pool[1], disk, k, NoFault).r = "Ok"
          /\ AdumpPool_find(pool[1], disk, k, FlushFails).r = "CorruptPool"
          /\ FindWith(k, FlushFails)

\* A pool whose pool-files are added to until the limit is reached.
InitBuf ==
    /\ Init
    /\ props = [newfile |-> FALSE, limit |-> 150]

NextBuf == Next \/ AddBufFault \/ FindBufFault

\* The pool under failures of the writes of the buffered frames.
SpecBuf == InitBuf /\ [][NextBuf]_vars

\* A writer that adds a chunk without asking contains_key first.
AddAgain ==
    /\ pool # None
    /\ \E c \in Chunks :
          /\ AdumpPool_contains_key(pool[1], c.oid)
          /\ AddWith(c, NoFault)

NextDup == Next \/ AddAgain

\* The pool under a writer that adds chunks the pool holds.
SpecDup == Init /\ [][NextDup]_vars

\* Directory entries that no operation of the pool creates.
FooData == <<"f", "o", "o", ".", "d", "a", "t", "a">>
FooIdx == <<"f", "o", "o", ".", "i", "d", "x">>
OldData == <<"o", "l", "d", ".", "d", "a", "t", "a">>
Pool7x == <<"p", "o", "o", "l", "-", "d", "a", "t", "a", "-", "0", "0", "0", "7",
            "x", "d", "a", "t", "a", ".", "d", "a", "t", "a">>
Pool7xIdx == <<"p", "o", "o", "l", "-", "d", "a", "t", "a", "-", "0", "0", "0", "7",
               "x", "d", "a", "t", "a", ".", "i", "d", "x">>
Pool3Datax == <<"p", "o", "o", "l", "-", "d", "a", "t", "a", "-", "0", "0", "0", "3",
                ".", "d", "a", "t", "a", "x">>

Strays ==
    { <<>>,
      FooData :> [t |-> "junk", len |-> 5],
      OldData :> DirEnt,
      (FooData :> DataFile(<<>>)) @@ (FooIdx :> IdxFile(0, <<>>)),
      (Pool7x :> DataFile(<<>>)) @@ (Pool7xIdx :> IdxFile(0, <<>>)),
      Pool3Datax :> [t |-> "junk", len |-> 5] }

InitScan == \E extra \in Strays : InitWith(extra)

\* The pool in a directory that may hold entries of other origin.
SpecScan == InitScan /\ [][Next]_vars

\* A pool-file of one frame whose bytes changed after it was written, with
\* the index that was saved for it: a byte of the payload of a frame stored
\* uncompressed, the oid field and the kind field of a frame stored
\* compressed.
BackChunk == new_plain(KindBack, <<1, 2, 3, 4, 5, 6, 7, 8, 9, 10, 11, 12, 13, 14, 15, 16, 17>>)
ZerosChunk == new_plain(KindBlob, Zeros(20))

DamagedFile(c, frame) ==
    (PoolFileName(0) :> DataFile(<<frame>>))
        @@ (WithExtension(PoolFileName(0), IdxExt)
                :> IdxFile(FrameBytes(frame), <<Node(c.oid, 0, c.kind)>>))

Damaged ==
    { DamagedFile(BackChunk, [write_chunk(BackChunk) EXCEPT !.payload[1] = 0]),
      DamagedFile(ZerosChunk, [write_chunk(ZerosChunk) EXCEPT !.oid = AbsentOid]),
      DamagedFile(ZerosChunk, [write_chunk(ZerosChunk) EXCEPT !.kind = KindBack]) }

InitRot == \E extra \in Damaged : InitWith(extra)

\* The pool over a pool-file that was damaged where it is stored.
SpecRot == InitRot /\ [][Next]_vars

\* The files of test_index, next to a stream of no frames.
R1Data == <<"r", "1", ".", "d", "a", "t", "a">>
R1Idx == <<"r", "1", ".", "i", "d", "x">>

\* The keys inserted: two neighbours that share a first byte, and the key
\* just below them, in the bucket before.
IxKeys == {<<0, 255>>, <<1, 0>>, <<1, 1>>}
\* The keys looked up: the keys inserted and their neighbours.
IxProbes == IxKeys \cup {<<0, 0>>, <<0, 254>>, <<1, 2>>, <<2, 0>>, <<255, 255>>}
IxInfos == {[offset |-> 0, kind |-> KindBlob], [offset |-> 48, kind |-> KindBack]}
\* The sizes given to save and load.
IxSizes == {0, 48}

\* Index files that FileIndex::save did not write: of another magic, of
\* another version, and cut short.
IndexStrays ==
    { <<>>,
      R1Idx :> [IdxFile(0, <<>>) EXCEPT !.magic = "adumpidx"],
      R1Idx :> [IdxFile(0, <<>>) EXCEPT !.version = 3],
      R1Idx :> [IdxFile(0, <<>>) EXCEPT !.magic = "adumpidx", !.bytes = 10],
      R1Idx :> [IdxFile(0, <<>>) EXCEPT !.bytes = 4],
      R1Idx :> [IdxFile(0, <<>>) EXCEPT !.bytes = 14],
      R1Idx :> [IdxFile(0, <<>>) EXCEPT !.bytes = 1000] }

InitIndex ==
    /\ \E extra \in IndexStrays :
          disk = (R1Data :> DataFile(<<>>)) @@ extra
    /\ props = [newfile |-> FALSE, limit |-> 64]
    /\ pool = None
    /\ result = [op |-> "create", r |-> "Ok"]
    /\ added = {}
    /\ pending = {}
    /\ abandoned = FALSE
    /\ presented = {}
    /\ created = <<>>
    /\ faults = 0
    /\ addLog = <<>>
    /\ index = PairIndex_empty
    /\ cell = NoChunk
    /\ stream = NoStream
    /\ target = NoTarget
    /\ kind = NoKind
    /\ ind = NoInd
    /\ wide = NoWide

\* IndexUpdate for PairIndex: insert
IxInsert(key, info) ==
    /\ Len(index.file) + Cardinality(DOMAIN index.ram \cup {key}) <= MaxNodes
    /\ index' = PairIndex_insert(index, key, info.offset, info.kind)
    /\ result' = [op |-> "insert", r |-> "Ok"]
    /\ UNCHANGED <<disk, props, pool, added, pending, abandoned, presented, created,
                   faults, addLog, cell, stream, target, kind, ind, wide>>

\* PairIndex::save
IxSave(size) ==
    /\ \E sv \in {PairIndex_save(index, disk, R1Idx, size, NoFault)} :
           /\ disk' = sv.disk
           /\ result' = [op |-> "save", r |-> sv.r]
    /\ UNCHANGED <<props, pool, added, pending, abandoned, presented, created,
                   faults, addLog, index, cell, stream, target, kind, ind, wide>>

\* PairIndex::load
IxLoad(size) ==
    /\ \E l \in {PairIndex_load(disk, R1Idx, size)} :
           /\ index' = IF l.ok THEN l.index ELSE index
           /\ result' = [op |-> "load", r |-> IF l.ok THEN "Ok" ELSE l.err]
    /\ UNCHANGED <<disk, props, pool, added, pending, abandoned, presented, created,
                   faults, addLog, cell, stream, target, kind, ind, wide>>

NextIndex ==
    \/ \E k \in IxKeys, info \in IxInfos : IxInsert(k, info)
    \/ \E size \in IxSizes : IxSave(size)
    \/ \E size \in IxSizes : IxLoad(size)

\* A PairIndex on its own: insert, save and load, as in test_index.
SpecIndex == InitIndex /\ [][NextIndex]_vars

\* The chunks built in the unit under test: by new_plain, of payloads that
\* compress, that do not, and whose compressed form is as long as they are;
\* by new_compressed, of a buffer that inflates to data_len bytes, of one that
\* does not, and of one that is longer than what it inflates to.
ChunkInputs ==
    [c : {new_plain(KindBlob, <<>>), new_plain(KindBlob, <<1, 2, 3>>),
          new_plain(KindBack, <<5, 5, 5, 5>>), new_plain(KindBlob, Zeros(5))},
     built : {"new_plain"}]
      \cup
    [c : {new_compressed(KindBlob, from_data(KindBlob, Zeros(5)), zlib_encode(Zeros(5)), 5),
          new_compressed(KindBlob, from_data(KindBlob, Zeros(5)), zlib_encode(Zeros(5)), 6),
          new_compressed(KindBlob, from_data(KindBlob, <<1, 2>>), zlib_encode(<<1, 2>>), 2)},
     built : {"new_compressed"}]

\* No pool, no stream; no chunk built yet.
InitChunk ==
    /\ disk = <<>>
    /\ props = [newfile |-> FALSE, limit |-> 64]
    /\ pool = None
    /\ result = [op |-> "create", r |-> "Ok"]
    /\ added = {}
    /\ pending = {}
    /\ abandoned = FALSE
    /\ presented = {}
    /\ created = <<>>
    /\ faults = 0
    /\ addLog = <<>>
    /\ index = PairIndex_empty
    /\ cell = NoChunk
    /\ stream = NoStream
    /\ target = NoTarget
    /\ kind = NoKind
    /\ ind = NoInd
    /\ wide = NoWide

\* What an accessor returned: [r, v].
Returned(r, v) == [r |-> r, v |-> v]

\* A call of an accessor of the chunk: the chunk afterwards, and what the
\* call returned.
Called(op, after, ret) ==
    /\ cell' = [cell EXCEPT !.c = after, !.seen = @ \cup {[op |-> op, ret |-> ret]}]
    /\ result' = [op |-> op, r |-> ret.r]
    /\ UNCHANGED <<disk, props, pool, added, pending, abandoned, presented, created,
                   faults, addLog, index, stream, target, kind, ind, wide>>

\* Chunk::new_plain, Chunk::new_compressed
NewChunk(input) ==
    /\ cell.c = None
    /\ cell' = [c |-> Some(input.c), built |-> input.built, from |-> None, seen |-> {}]
    /\ result' = [op |-> input.built, r |-> "Ok"]
    /\ UNCHANGED <<disk, props, pool, added, pending, abandoned, presented, created,
                   faults, addLog, index, stream, target, kind, ind, wide>>

\* Chunk::kind
ChunkKind ==
    /\ cell.c # None
    /\ Called("kind", cell.c, Returned("Ok", <<cell.c[1].kind>>))

\* Chunk::oid
ChunkOid ==
    /\ cell.c # None
    /\ Called("oid", cell.c, Returned("Ok", cell.c[1].oid))

\* Chunk::data_len
ChunkDataLen ==
    /\ cell.c # None
    /\ Called("data_len", cell.c, Returned("Ok", <<cell.c[1].data_len>>))

\* Chunk::zdata
ChunkZdata ==
    /\ cell.c # None
    /\ \E after \in {zdata_tried(cell.c[1])} :
          Called("zdata", Some(after),
                 IF zdata(after) = None THEN Returned("None", <<>>)
                 ELSE Returned("Some", zdata(after)[1]))

\* Chunk::data
ChunkData ==
    /\ cell.c # None
    /\ \E after \in {force_data(cell.c[1])} :
          Called("data", Some(after),
                 IF data(after) = None THEN Returned("panic", <<>>)
                 ELSE Returned("Ok", data(after)[1]))

\* Chunk::into_bytes: the chunk is consumed.
ChunkIntoBytes ==
    /\ cell.c # None
    /\ \E after \in {force_data(cell.c[1])} :
          Called("into_bytes", None,
                 IF data(after) = None THEN Returned("panic", <<>>)
                 ELSE Returned("Ok", data(after)[1]))

\* single_chunk: the chunk c2 made of the compressed data of c1.
Recompress ==
    /\ cell.c # None
    /\ cell.built = "new_plain"
    /\ cell.from = None
    /\ zdata(cell.c[1]) # None
    /\ cell' = [c |-> Some(new_compressed(cell.c[1].kind, cell.c[1].oid,
                                          zdata(cell.c[1])[1], cell.c[1].data_len)),
                built |-> "new_compressed", from |-> cell.c, seen |-> {}]
    /\ result' = [op |-> "new_compressed", r |-> "Ok"]
    /\ UNCHANGED <<disk, props, pool, added, pending, abandoned, presented, created,
                   faults, addLog, index, stream, target, kind, ind, wide>>

NextChunk ==
    \/ \E input \in ChunkInputs : NewChunk(input)
    \/ ChunkKind
    \/ ChunkOid
    \/ ChunkDataLen
    \/ ChunkZdata
    \/ ChunkData
    \/ ChunkIntoBytes
    \/ Recompress

\* A Chunk on its own and the calls of its accessors.
SpecChunk == InitChunk /\ [][NextChunk]_vars

\* The chunks written to the stream: the chunks of the pool, a chunk whose
\* payload ends on a multiple of 16 bytes, and a chunk built from its
\* compressed form.
StreamChunks ==
    Chunks \cup {new_plain(KindBlob, [i \in 1..16 |-> i]),
                 new_compressed(KindBack, <<9, 9>>, zlib_encode(Zeros(20)), 20)}

InitStream ==
    /\ disk = <<>>
    /\ props = [newfile |-> FALSE, limit |-> 64]
    /\ pool = None
    /\ result = [op |-> "create", r |-> "Ok"]
    /\ added = {}
    /\ pending = {}
    /\ abandoned = FALSE
    /\ presented = {}
    /\ created = <<>>
    /\ faults = 0
    /\ addLog = <<>>
    /\ index = PairIndex_empty
    /\ cell = NoChunk
    /\ stream = NoStream
    /\ target = NoTarget
    /\ kind = NoKind
    /\ ind = NoInd
    /\ wide = NoWide

\* fd.write_chunk(&ch)
StreamWrite(c) ==
    /\ Len(stream.wrote) < MaxStream
    /\ stream' = [stream EXCEPT
                    !.bytes = @ \o write_chunk_bytes(write_chunk(c)),
                    !.wrote = Append(@, c),
                    !.ends = Append(@, Len(stream.bytes)
                                        + Len(write_chunk_bytes(write_chunk(c))))]
    /\ result' = [op |-> "write_chunk", r |-> "Ok"]
    /\ UNCHANGED <<disk, props, pool, added, pending, abandoned, presented, created,
                   faults, addLog, index, cell, target, kind, ind, wide>>

\* fd.read_chunk()
StreamRead ==
    /\ \E rf \in {read_frame(stream.bytes, stream.rd)} :
           /\ result' = [op |-> "read_chunk", r |-> rf.r]
           /\ stream' = IF rf.r # "Ok" THEN stream
                         ELSE [stream EXCEPT !.rd = rf.next,
                                             !.got = Append(@, read_chunk(rf.frame[1]))]
    /\ UNCHANGED <<disk, props, pool, added, pending, abandoned, presented, created,
                   faults, addLog, index, cell, target, kind, ind, wide>>

NextStream ==
    \/ \E c \in StreamChunks : StreamWrite(c)
    \/ StreamRead

\* Chunks written back to back into one stream and read back, as in
\* test_write.
SpecStream == InitStream /\ [][NextStream]_vars

\* ------------------------------------------------------------------------
\* PoolBuilder::create and the AdumpPool::open after it. The target is
\* [base, meta, uuid]: base is what the path names ("absent", "dir" or
\* "file"), disk the entries of the directory, meta the files of metadata/
\* as sequences of lines, uuid the uuid of the pool opened, parsed what
\* pfile::parse made of props.txt.

PropsName == <<"p", "r", "o", "p", "s", ".", "t", "x", "t">>
BackupsName == <<"b", "a", "c", "k", "u", "p", "s", ".", "t", "x", "t">>
UuidKey == <<"u", "u", "i", "d">>
NewfileKey == <<"n", "e", "w", "f", "i", "l", "e">>
LimitKey == <<"l", "i", "m", "i", "t">>

\* Mutant of ensure_dir: a directory with entries is accepted.
ensure_dir_any_dir(t, d) ==
    IF t.base = "dir" THEN "Ok"
    ELSE IF t.base = "absent" THEN "Ok"
    ELSE "Io"

\* ensure_dir: "Ok", "PathError" for a directory with entries, "Io" when
\* fs::create_dir fails on a path that names a file.
ensure_dir(t, d) ==
    IF t.base = "dir" THEN (IF DOMAIN d # {} THEN "PathError" ELSE "Ok")
    ELSE IF t.base = "absent" THEN "Ok"
    ELSE "Io"

\* The three writeln! of props.txt.
PropsLines(uuid, cfg) ==
    << UuidKey \o <<"=">> \o Hyphenated(uuid),
       NewfileKey \o <<"=">> \o BoolText(cfg.newfile),
       LimitKey \o <<"=">> \o Decimal(cfg.limit) >>

\* PoolBuilder::create: [r, target, disk].
PoolBuilder_create_in(t, d, cfg, uuid, ensured) ==
    IF ensured # "Ok" THEN [r |-> ensured, target |-> t, disk |-> d]
    ELSE [r |-> "Ok",
          target |-> [t EXCEPT !.base = "dir",
                               !.meta = MapInsert(MapInsert(<<>>, PropsName,
                                                            PropsLines(uuid, cfg)),
                                                  BackupsName, <<>>)],
          disk |-> NewPoolDir]

PoolBuilder_create(t, d, cfg, uuid) ==
    PoolBuilder_create_in(t, d, cfg, uuid, ensure_dir(t, d))

\* AdumpPool::open, from the text of props.txt: [r, pool, uuid].
OpenFailed(r) == [r |-> r, pool |-> None, uuid |-> None]

AdumpPool_open_scan(uuid, o) == [r |-> o.r, pool |-> o.pool, uuid |-> uuid]

\* props.get(key)
props_get(map, key) == IF key \in DOMAIN map THEN Some(map[key]) ELSE None

\* The text of a property, empty when the key is missing.
TextOf(got) == IF got = None THEN <<>> ELSE got[1]

\* Mutant of Property: a value that does not parse is reported as a missing
\* key is.
Property_one_error(got, parsed, err) ==
    IF got = None THEN [r |-> "PropertyError", v |-> None]
    ELSE IF parsed = None THEN [r |-> "PropertyError", v |-> None]
    ELSE [r |-> "Ok", v |-> parsed]

\* props.get(key).ok_or_else(PropertyError)?, and the parse of the value
\* with `?`, whose error is converted by From: [r, v].
Property(got, parsed, err) ==
    IF got = None THEN [r |-> "PropertyError", v |-> None]
    ELSE IF parsed = None THEN [r |-> err, v |-> None]
    ELSE [r |-> "Ok", v |-> parsed]

\* The three properties in the order AdumpPool::open reads them.
AdumpPool_open_values(d, uuid, newfile, limit) ==
    IF uuid.r # "Ok" THEN OpenFailed(uuid.r)
    ELSE IF newfile.r # "Ok" THEN OpenFailed(newfile.r)
    ELSE IF limit.r # "Ok" THEN OpenFailed(limit.r)
    ELSE AdumpPool_open_scan(uuid.v,
            AdumpPool_open(d, [newfile |-> newfile.v[1], limit |-> limit.v[1]]))

AdumpPool_open_parsed(d, pf) ==
    IF pf.r # "Ok" THEN OpenFailed(pf.r)
    ELSE AdumpPool_open_values(d,
            Property(props_get(pf.map, UuidKey),
                     Uuid_parse_str(TextOf(props_get(pf.map, UuidKey))), "Uuid"),
            Property(props_get(pf.map, NewfileKey),
                     ParseBool(TextOf(props_get(pf.map, NewfileKey))), "ParseBoolError"),
            Property(props_get(pf.map, LimitKey),
                     ParseU32Checked(TextOf(props_get(pf.map, LimitKey))),
                     "ParseIntError"))

AdumpPool_open_dir(t, d) ==
    IF t.base # "dir" \/ MetadataName \notin DOMAIN d \/ PropsName \notin DOMAIN t.meta
    THEN OpenFailed("Io")
    ELSE AdumpPool_open_parsed(d, pfile_parse(t.meta[PropsName]))

\* AdumpPool::new_builder: newfile false, limit 640 * 1024 * 1024.
DefaultLimit == 671088640
NewBuilder == [newfile |-> FALSE, limit |-> DefaultLimit]

\* The values given to set_limit in the model.
BuilderLimits == {0, 64, 150, 2147483647}

\* The uuids Uuid::new_v4 draws in the model.
Uuids == {[i \in 1..16 |-> (37 * i) % 256], [i \in 1..16 |-> 255 - i]}

DataDbName == <<"d", "a", "t", "a", ".", "d", "b">>

\* The file data.db: ok when it is a database with the schema of a pool
\* and a uuid.
DbFile(ok) == [t |-> "db", ok |-> ok]

\* FilePool::open: the pool, or the error of SqliteConnection::open, of the
\* check of the schema or of the query of the uuid.
FilePool_open(t, d) ==
    IF t.base = "dir" /\ DataDbName \in DOMAIN d /\ d[DataDbName] = DbFile(TRUE)
    THEN "FilePool"
    ELSE "Sql"

\* pool::open of the crate cas: "FilePool" for Ok with the pool made by
\* FilePool::open, else the error.
pool_open(t, d) ==
    IF t.base # "dir" \/ DataDbName \notin DOMAIN d THEN "Io"
    ELSE IF d[DataDbName].t = "dir" THEN "NotAPool"
    ELSE FilePool_open(t, d)

\* pool::open of libpool
libpool_open(t, d) ==
    IF t.base # "dir" \/ DataDbName \notin DOMAIN d THEN "NotAPool"
    ELSE FilePool_open(t, d)

\* What the path names when the builder is made: nothing, a file, an empty
\* directory, a directory with one entry, a pool, a directory with data.db.
Targets ==
    {[base |-> "absent", disk |-> <<>>], [base |-> "file", disk |-> <<>>],
     [base |-> "dir", disk |-> <<>>],
     [base |-> "dir", disk |-> MapInsert(<<>>, SeenName, DirEnt)],
     [base |-> "dir", disk |-> MapInsert(<<>>, PoolFileName(0), DataFile(<<>>))],
     [base |-> "dir", disk |-> NewPoolDir],
     [base |-> "dir", disk |-> MapInsert(<<>>, DataDbName, DbFile(TRUE))],
     [base |-> "dir", disk |-> MapInsert(<<>>, DataDbName, DbFile(FALSE))],
     [base |-> "dir", disk |-> MapInsert(<<>>, DataDbName, DirEnt)]}

InitCreate ==
    /\ \E t \in Targets :
          /\ target = [base |-> t.base, meta |-> <<>>, uuid |-> None, parsed |-> None]
          /\ kind = NoKind
          /\ ind = NoInd
          /\ wide = NoWide
          /\ disk = t.disk
    /\ props = NewBuilder
    /\ pool = None
    /\ result = [op |-> "new_builder", r |-> "Ok"]
    /\ added = {}
    /\ pending = {}
    /\ abandoned = FALSE
    /\ presented = {}
    /\ created = <<>>
    /\ faults = 0
    /\ addLog = <<>>
    /\ index = PairIndex_empty
    /\ cell = NoChunk
    /\ stream = NoStream

BuilderOps == {"new_builder", "set_newfile", "set_limit"}

\* PoolBuilder::set_newfile
SetNewfile(b) ==
    /\ result.op \in BuilderOps
    /\ props' = [props EXCEPT !.newfile = b]
    /\ result' = [op |-> "set_newfile", r |-> "Ok"]
    /\ UNCHANGED <<disk, pool, added, pending, abandoned, presented, created,
                   faults, addLog, index, cell, stream, target, kind, ind, wide>>

\* PoolBuilder::set_limit
SetLimit(n) ==
    /\ result.op \in BuilderOps
    /\ props' = [props EXCEPT !.limit = n]
    /\ result' = [op |-> "set_limit", r |-> "Ok"]
    /\ UNCHANGED <<disk, pool, added, pending, abandoned, presented, created,
                   faults, addLog, index, cell, stream, target, kind, ind, wide>>

\* PoolBuilder::create
Create(uuid) ==
    /\ result.op \in BuilderOps
    /\ \E c \in {PoolBuilder_create(target, disk, props, uuid)} :
          /\ target' = c.target
          /\ disk' = c.disk
          /\ result' = [op |-> "create", r |-> c.r]
    /\ UNCHANGED <<props, pool, added, pending, abandoned, presented, created,
                   faults, addLog, index, cell, stream, kind, ind, wide>>

\* AdumpPool::open of the path given to the builder.
OpenDir ==
    /\ \E o \in {AdumpPool_open_dir(target, disk)} :
          /\ pool' = o.pool
          /\ target' = [target EXCEPT !.uuid = o.uuid]
          /\ result' = [op |-> "open", r |-> o.r]
    /\ UNCHANGED <<disk, props, added, pending, abandoned, presented, created,
                   faults, addLog, index, cell, stream, kind, ind, wide>>

OpenCreated ==
    /\ result.op = "create"
    /\ OpenDir

\* pool::open of the path
PoolOpen ==
    /\ result.op \in BuilderOps \cup {"create"}
    /\ result' = [op |-> "pool_open", r |-> pool_open(target, disk)]
    /\ UNCHANGED <<disk, props, pool, added, pending, abandoned, presented, created,
                   faults, addLog, index, cell, stream, target, kind, ind, wide>>

\* pool::open of libpool, of the path
LibpoolOpen ==
    /\ result.op \in BuilderOps \cup {"create"}
    /\ result' = [op |-> "libpool_open", r |-> libpool_open(target, disk)]
    /\ UNCHANGED <<disk, props, pool, added, pending, abandoned, presented, created,
                   faults, addLog, index, cell, stream, target, kind, ind, wide>>

NextCreate ==
    \/ \E b \in BOOLEAN : SetNewfile(b)
    \/ \E n \in BuilderLimits : SetLimit(n)
    \/ \E u \in Uuids : Create(u)
    \/ OpenCreated
    \/ PoolOpen
    \/ LibpoolOpen

\* The creation of a pool and its first open.
SpecCreate == InitCreate /\ [][NextCreate]_vars

\* ------------------------------------------------------------------------
\* A pool directory whose props.txt was written by hand.

BadUuidText == <<"z", "z">>

\* The lines props.txt is made of: the three properties with values that
\* parse and values that do not, a comment, an empty line, a line without
\* '=' and a value that holds one.
PropLines ==
    { UuidKey \o <<"=">> \o Hyphenated([i \in 1..16 |-> 255 - i]),
      UuidKey \o <<"=">> \o BadUuidText,
      NewfileKey \o <<"=">> \o TrueText,
      NewfileKey \o <<"=">> \o FalseText,
      NewfileKey \o <<"=", "y", "e", "s">>,
      LimitKey \o <<"=", "6", "4">>,
      LimitKey \o <<"=", "6", "=", "4">>,
      <<"#">> \o LimitKey \o <<"=", "1">>,
      <<>>,
      LimitKey }

\* The texts of at most MaxLines lines.
PropTexts == UNION {[1..n -> PropLines] : n \in 0..MaxLines}

InitProps ==
    /\ \E text \in PropTexts :
          target = [base |-> "dir", meta |-> MapInsert(<<>>, PropsName, text),
                    uuid |-> None, parsed |-> None]
    /\ disk = NewPoolDir
    /\ props = NewBuilder
    /\ pool = None
    /\ result = [op |-> "edit", r |-> "Ok"]
    /\ kind = NoKind
    /\ ind = NoInd
    /\ wide = NoWide
    /\ added = {}
    /\ pending = {}
    /\ abandoned = FALSE
    /\ presented = {}
    /\ created = <<>>
    /\ faults = 0
    /\ addLog = <<>>
    /\ index = PairIndex_empty
    /\ cell = NoChunk
    /\ stream = NoStream

\* pfile::parse of props.txt
ParseProps ==
    /\ result.op = "edit"
    /\ target' = [target EXCEPT !.parsed = Some(pfile_parse(target.meta[PropsName]))]
    /\ result' = [op |-> "parse", r |-> pfile_parse(target.meta[PropsName]).r]
    /\ UNCHANGED <<disk, props, pool, added, pending, abandoned, presented, created,
                   faults, addLog, index, cell, stream, kind, ind, wide>>

\* AdumpPool::open of the directory
OpenEdited ==
    /\ result.op \in {"edit", "parse"}
    /\ OpenDir

NextProps == ParseProps \/ OpenEdited

SpecProps == InitProps /\ [][NextProps]_vars

\* ------------------------------------------------------------------------
\* Properties.

\* What find(key) on pool pl gives its caller: Some(data) or None on failure.
FoundData(f) == IF f.r = "Ok" THEN data(f.chunk[1]) ELSE None

FindData(pl, d, key) == FoundData(AdumpPool_find(pl, d, key, NoFault))

\* The ChunkFile of pool pl with the given name.
CfileNamed(pl, name) ==
    pl.cfiles[CHOOSE i \in 1..Len(pl.cfiles) : pl.cfiles[i].name = name]

\* The largest frame in the directory.
LargestFrame(d) ==
    LET sizes == UNION {{FrameBytes(d[n].frames[i]) : i \in 1..Len(d[n].frames)} :
                          n \in {m \in DOMAIN d : d[m].t = "data"}}
    IN  MaxOf(sizes \cup {0})

(***************************************************************************)
(* Kind on its own: a text is a sequence of code points, as_bytes is its   *)
(* UTF-8 encoding.                                                         *)
(***************************************************************************)
MaxKindLen == 5

\* str::as_bytes of one char
Utf8(c) ==
    IF c < 128 THEN <<c>>
    ELSE IF c < 2048 THEN <<192 + (c \div 64), 128 + (c % 64)>>
    ELSE <<224 + (c \div 4096), 128 + ((c \div 64) % 64), 128 + (c % 64)>>

RECURSIVE as_bytes(_)
as_bytes(text) ==
    IF text = <<>> THEN <<>> ELSE Utf8(Head(text)) \o as_bytes(Tail(text))

\* read_u32::<LittleEndian> of four bytes
read_u32(b) == b[1] + 256 * b[2] + 65536 * b[3] + 16777216 * b[4]

\* Kind::new with the test of the length before the test of the chars
Kind_new_length_first(text) ==
    LET b == as_bytes(text)
    IN  IF Len(b) # 4 THEN [r |-> "BadKindLength", k |-> None]
        ELSE IF Len(b) # Len(text) THEN [r |-> "NonAsciiKind", k |-> None]
        ELSE [r |-> "Ok", k |-> Some(read_u32(b))]

\* Kind::new: [r, k]
Kind_new(text) ==
    LET b == as_bytes(text)
    IN  IF Len(b) # Len(text) THEN [r |-> "NonAsciiKind", k |-> None]
        ELSE IF Len(b) # 4 THEN [r |-> "BadKindLength", k |-> None]
        ELSE [r |-> "Ok", k |-> Some(read_u32(b))]

\* String::from_utf8 of bytes below 128: the chars of these codes.
Kind_to_string(k) == KindBytes(k)

\* The chars of the texts: 'b', 'l', 'o', e with an acute accent (two bytes
\* in UTF-8) and the bullet of test_new (three bytes).
KindChars == {98, 108, 111, 233, 8226}
KindTexts == UNION {[1..n -> KindChars] : n \in 0..MaxKindLen}

InitKind ==
    /\ disk = <<>>
    /\ props = [newfile |-> FALSE, limit |-> 64]
    /\ pool = None
    /\ result = [op |-> "text", r |-> "Ok"]
    /\ added = {}
    /\ pending = {}
    /\ abandoned = FALSE
    /\ presented = {}
    /\ created = <<>>
    /\ faults = 0
    /\ addLog = <<>>
    /\ index = PairIndex_empty
    /\ cell = NoChunk
    /\ stream = NoStream
    /\ target = NoTarget
    /\ kind \in [text : KindTexts, k : {None}]
    /\ ind = NoInd
    /\ wide = NoWide

\* Kind::new(text)
KindNew ==
    /\ result.op = "text"
    /\ \E n \in {Kind_new(kind.text)} :
          /\ kind' = [kind EXCEPT !.k = n.k]
          /\ result' = [op |-> "Kind_new", r |-> n.r]
    /\ UNCHANGED <<disk, props, pool, added, pending, abandoned, presented, created,
                   faults, addLog, index, cell, stream, target, ind, wide>>

\* Kind::bytes and Kind::to_string of the Kind made
KindRead ==
    /\ result.op = "Kind_new"
    /\ result.r = "Ok"
    /\ result' = [op |-> "Kind_read",
                  r |-> [bytes |-> KindBytes(kind.k[1]),
                         string |-> Kind_to_string(kind.k[1])]]
    /\ UNCHANGED <<disk, props, pool, added, pending, abandoned, presented, created,
                   faults, addLog, index, cell, stream, target, kind, ind, wide>>

NextKind ==
    \/ KindNew
    \/ KindRead

SpecKind == InitKind /\ [][NextKind]_vars

(***************************************************************************)
(* The sizes of the pool-files in their 32 bits.  Every frame is a         *)
(* multiple of 16 bytes long, so lengths are counted in units of 16 bytes: *)
(* a u32 wraps at 2^28 units, and a length is above i32::max_value() when  *)
(* it is 2^27 units or more.  A limit is kept as limit / 16, rounded down: *)
(* a multiple of 16 is above limit exactly when its units are above that.  *)
(***************************************************************************)
MaxWideAdds == 4
U32Units == 268435456
I32MaxUnits == 134217727

\* A pool-file: len is the length of the file in the directory, size the
\* u32 ChunkFile.size.
WideFile(len, size) == [len |-> len, size |-> size]

\* cf.size + size of needs_new_file, a sum of two u32: [r, sum].  The sum
\* that does not fit panics in a build with overflow checks and wraps in a
\* build without.
u32_add(a, b, build) ==
    IF a + b < U32Units THEN [r |-> "Ok", sum |-> a + b]
    ELSE IF build = "debug" THEN [r |-> "panic", sum |-> 0]
    ELSE [r |-> "Ok", sum |-> (a + b) % U32Units]

\* AdumpPool::needs_new_file (newfile is false) on the sizes: [r, new]
needs_new_file_u32(w, size) ==
    IF w.files = <<>> THEN [r |-> "Ok", new |-> TRUE]
    ELSE LET a == u32_add(w.files[Len(w.files)].size, size, w.build)
         IN  [r |-> a.r, new |-> a.sum > w.limit]

\* ChunkFile::add on the sizes: the frame goes to the end of the file, and
\* size is the position after it, cast to u32.
ChunkFile_add_u32(f, size) ==
    WideFile(f.len + size, (f.len + size) % U32Units)

\* AdumpPool::add on the sizes: [r, files]
AdumpPool_add_u32(w, size) ==
    LET n == needs_new_file_u32(w, size)
        fs == IF n.new THEN Append(w.files, WideFile(0, 0)) ELSE w.files
    IN  IF n.r # "Ok" THEN [r |-> n.r, files |-> w.files]
        ELSE [r |-> "Ok",
              files |-> [fs EXCEPT ![Len(fs)] = ChunkFile_add_u32(fs[Len(fs)], size)]]

\* ChunkFile::open of every pool-file, on the sizes: [r, files]
scan_backups_u32(files) ==
    IF \E i \in 1..Len(files) : files[i].len > I32MaxUnits
    THEN [r |-> "CorruptPool", files |-> files]
    ELSE [r |-> "Ok", files |-> [i \in 1..Len(files) |-> WideFile(files[i].len, files[i].len)]]

\* The limits given to set_limit: i32::max_value(), 3 GiB and
\* u32::max_value(); and the default.
WideLimits == {I32MaxUnits, 201326592, U32Units - 1, DefaultLimit \div 16}
\* The frames: of a chunk without payload, and of chunks of about 640 MiB
\* and 1 GiB.
WideFrames == {3, 41943040, 67108864}

InitWide ==
    /\ disk = <<>>
    /\ props = [newfile |-> FALSE, limit |-> 64]
    /\ pool = None
    /\ result = [op |-> "create", r |-> "Ok"]
    /\ added = {}
    /\ pending = {}
    /\ abandoned = FALSE
    /\ presented = {}
    /\ created = <<>>
    /\ faults = 0
    /\ addLog = <<>>
    /\ index = PairIndex_empty
    /\ cell = NoChunk
    /\ stream = NoStream
    /\ target = NoTarget
    /\ kind = NoKind
    /\ ind = NoInd
    /\ wide \in [limit : WideLimits, build : {"debug", "release"},
                  files : {<<>>}, adds : {0}]

\* AdumpPool::add of a chunk whose frame has this size
WideAdd(size) ==
    /\ result.r = "Ok"
    /\ wide.adds < MaxWideAdds
    /\ \E a \in {AdumpPool_add_u32(wide, size)} :
          /\ wide' = [wide EXCEPT !.files = a.files, !.adds = @ + 1]
          /\ result' = [op |-> "add", r |-> a.r]
    /\ UNCHANGED <<disk, props, pool, added, pending, abandoned, presented, created,
                   faults, addLog, index, cell, stream, target, kind, ind>>

\* flush, the end of the session and AdumpPool::open
WideReopen ==
    /\ result = [op |-> "add", r |-> "Ok"]
    /\ \E o \in {scan_backups_u32(wide.files)} :
          /\ wide' = [wide EXCEPT !.files = o.files]
          /\ result' = [op |-> "open", r |-> o.r]
    /\ UNCHANGED <<disk, props, pool, added, pending, abandoned, presented, created,
                   faults, addLog, index, cell, stream, target, kind, ind>>

NextWide ==
    \/ \E size \in WideFrames : WideAdd(size)
    \/ WideReopen

SpecWide == InitWide /\ [][NextWide]_vars

(***************************************************************************)
(* indirect::Write of the filer.  An oid given to add is [leaf |-> n]; the *)
(* oid of a chunk written to the sink is the chunk, [kind, data]: two      *)
(* chunks have one oid exactly when they have one kind and one payload.    *)
(* A buffer is the sequence of the oids whose bytes it holds.              *)
(***************************************************************************)
MaxLeaves == 12
OidSize == 20

\* The prefix "IND" and the kind "NULL"
IndPrefix == <<73, 78, 68>>
NullText == <<78, 85, 76, 76>>

\* format!("{}", n) of a usize
RECURSIVE Digits(_)
Digits(n) == IF n < 10 THEN <<48 + n>> ELSE Digits(n \div 10) \o <<48 + (n % 10)>>

\* chunk::new_plain(kind, buf) of a buffer of oids
IndChunk(k, buf) == [kind |-> k, data |-> buf]

\* Write::push_buffer
push_buffer(w) ==
    [w EXCEPT !.buffers = Append(@, <<>>),
              !.level = IF Len(w.buffers) + 1 > @ THEN Len(w.buffers) + 1 ELSE @]

\* buf_mut().extend(oid.bytes)
buf_extend(w, oid) == [w EXCEPT !.buffers[Len(w.buffers)] = Append(@, oid)]

\* Write::collapse: [r, w, top].  Kind::new(..).unwrap() panics on a text
\* that is not four bytes long.
collapse_made(w, buf, k) ==
    IF k.r # "Ok" THEN [r |-> "panic", w |-> w, top |-> None]
    ELSE [r |-> "Ok", w |-> [w EXCEPT !.sink = @ \cup {IndChunk(k.k[1], buf)}],
          top |-> Some(IndChunk(k.k[1], buf))]

collapse_popped(w, buf) ==
    IF Len(buf) = 0 THEN [r |-> "panic", w |-> w, top |-> None]
    ELSE IF Len(buf) * OidSize = OidSize THEN [r |-> "Ok", w |-> w, top |-> Some(buf[1])]
    ELSE collapse_made(w, buf,
            Kind_new(IndPrefix \o Digits(w.level - Len(w.buffers) - 1)))

collapse(w) ==
    IF w.buffers = <<>> THEN [r |-> "panic", w |-> w, top |-> None]
    ELSE collapse_popped([w EXCEPT !.buffers = SubSeq(@, 1, Len(@) - 1)],
                         w.buffers[Len(w.buffers)])

\* Write::add_level: [r, w].  The level is not used.
RECURSIVE add_level(_, _)
add_level_upper(a, oid) ==
    IF a.r # "Ok" THEN a
    ELSE [r |-> "Ok", w |-> buf_extend(push_buffer(a.w), oid)]

add_level_collapsed(c, oid) ==
    IF c.r # "Ok" THEN [r |-> c.r, w |-> c.w]
    ELSE add_level_upper(add_level(c.w, c.top[1]), oid)

add_level(w, oid) ==
    IF w.buffers = <<>> THEN [r |-> "Ok", w |-> buf_extend(push_buffer(w), oid)]
    ELSE IF Len(w.buffers[Len(w.buffers)]) * OidSize + OidSize > w.limit
    THEN add_level_collapsed(collapse(w), oid)
    ELSE [r |-> "Ok", w |-> buf_extend(w, oid)]

\* Write::finish: [r, w, top]
RECURSIVE finish_loop(_)
finish_added(a) ==
    IF a.r # "Ok" THEN [r |-> a.r, w |-> a.w, top |-> None]
    ELSE finish_loop(a.w)

finish_collapsed(c) ==
    IF c.r # "Ok" \/ c.w.buffers = <<>> THEN c
    ELSE finish_added(add_level(c.w, c.top[1]))

finish_loop(w) == finish_collapsed(collapse(w))

finish(w) ==
    IF w.buffers = <<>>
    THEN collapse_made(w, <<>>, Kind_new(NullText))
    ELSE finish_loop(w)

\* Walker::walk of the test: the oids that are not of IND chunks, from left
\* to right; an IND chunk that the pool does not hold gives [leaf |-> -1].
IsLeaf(oid) == "leaf" \in DOMAIN oid
IsInd(k) == SubSeq(KindBytes(k), 1, 3) = IndPrefix

RECURSIVE walk(_, _)
RECURSIVE walk_all(_, _, _)
walk_all(oids, i, sink) ==
    IF i > Len(oids) THEN <<>>
    ELSE walk(oids[i], sink) \o walk_all(oids, i + 1, sink)

walk(oid, sink) ==
    IF IsLeaf(oid) THEN <<oid>>
    ELSE IF oid \notin sink \/ ~IsInd(oid.kind) THEN <<[leaf |-> -1]>>
    ELSE walk_all(oid.data, 1, sink)

\* The n-th oid given to add: all different (period 0), or repeating.
LeafOid(n, period) == [leaf |-> IF period = 0 THEN n ELSE n % period]

\* The writer after add of the oids lo..hi, every add returning Ok.
RECURSIVE AddRange(_, _, _)
AddRange(w, lo, hi) ==
    IF lo > hi THEN w
    ELSE IF lo = hi
    THEN [add_level(w, LeafOid(lo, w.period)).w EXCEPT !.leaves =
             Append(@, LeafOid(lo, w.period))]
    ELSE CHOOSE y \in {AddRange(x, ((lo + hi) \div 2) + 1, hi) :
                         x \in {AddRange(w, lo, (lo + hi) \div 2)}} : TRUE

\* Write::new
Write_new(limit, period, start) ==
    [limit |-> limit, buffers |-> <<>>, level |-> 0, sink |-> {}, leaves |-> <<>>,
     period |-> period, root |-> None, start |-> start]

\* The limits: room for two oids, for two oids and a half, for three.
IndLimits == {40, 50, 60}
IndPeriods == {0, 1}
\* The oids given to add before the run starts: none, and as many as fill
\* ten levels of two oids.
IndStarts == {0, 2046}

InitInd ==
    /\ disk = <<>>
    /\ props = [newfile |-> FALSE, limit |-> 64]
    /\ pool = None
    /\ result = [op |-> "new", r |-> "Ok"]
    /\ added = {}
    /\ pending = {}
    /\ abandoned = FALSE
    /\ presented = {}
    /\ created = <<>>
    /\ faults = 0
    /\ addLog = <<>>
    /\ index = PairIndex_empty
    /\ cell = NoChunk
    /\ stream = NoStream
    /\ target = NoTarget
    /\ kind = NoKind
    /\ wide = NoWide
    /\ \E l \in IndLimits, p \in IndPeriods, n \in IndStarts :
          ind = AddRange(Write_new(l, p, n), 1, n)

\* Write::add of the next oid
IndAdd ==
    /\ result.op \in {"new", "ind_add"}
    /\ result.r = "Ok"
    /\ Len(ind.leaves) < ind.start + MaxLeaves
    /\ \E a \in {add_level(ind, LeafOid(Len(ind.leaves) + 1, ind.period))} :
          /\ ind' = [a.w EXCEPT !.leaves =
                        Append(@, LeafOid(Len(ind.leaves) + 1, ind.period))]
          /\ result' = [op |-> "ind_add", r |-> a.r]
    /\ UNCHANGED <<disk, props, pool, added, pending, abandoned, presented, created,
                   faults, addLog, index, cell, stream, target, kind, wide>>

\* Write::finish
IndFinish ==
    /\ result.op \in {"new", "ind_add"}
    /\ result.r = "Ok"
    /\ \E f \in {finish(ind)} :
          /\ ind' = [f.w EXCEPT !.root = f.top]
          /\ result' = [op |-> "finish", r |-> f.r]
    /\ UNCHANGED <<disk, props, pool, added, pending, abandoned, presented, created,
                   faults, addLog, index, cell, stream, target, kind, wide>>

NextInd ==
    \/ IndAdd
    \/ IndFinish

SpecInd == InitInd /\ [][NextInd]_vars

\* The limit rule applied at a logged add: the last pool-file existed and
\* the frame did not fit.
LimitRule(e) == e.prev # None /\ e.prev[1] + e.fsize > props.limit

\* C1: after sessions that each end with every added chunk flushed, the next
\* open succeeds and find gives, for every chunk ever added, a chunk whose
\* data is the payload that was added.
C1_ReopenFindsAll ==
    ~abandoned =>
        /\ pool = None =>
              /\ AdumpPool_open(disk, props).r = "Ok"
              /\ \A c \in added :
                    FindData(AdumpPool_open(disk, props).pool[1], disk, c.oid) = c.data
        /\ result.op = "open" =>
              /\ result.r = "Ok"
              /\ \A c \in added : FindData(pool[1], disk, c.oid) = c.data

C1_Witness ==
    /\ result = [op |-> "open", r |-> "Ok"]
    /\ Cardinality(added) = 2
    /\ Len(pool[1].cfiles) = 1
    /\ Len(pool[1].cfiles[1].index.file) = 2

\* C2: in a session, every chunk whose add returned Ok and that no flush has
\* written to an index yet is reported by contains_key and returned, with
\* its data, by find; the find leaves the ChunkFile that holds it in state
\* Read.
C2_ReadsSeeWrites ==
    pool # None =>
        \A c \in pending :
            /\ AdumpPool_contains_key(pool[1], c.oid)
            /\ FindData(pool[1], disk, c.oid) = c.data
            /\ \E i \in 1..Len(pool[1].cfiles) :
                  /\ ChunkFile_contains_key(pool[1].cfiles[i], c.oid)
                  /\ AdumpPool_find(pool[1], disk, c.oid, NoFault).cfiles[i].buf = "Read"

C2_Witness ==
    /\ result = [op |-> "find", r |-> "Ok"]
    /\ Cardinality(pending) = 2
    /\ \E i \in 1..Len(pool[1].cfiles) :
          /\ pool[1].cfiles[i].buf = "Read"
          /\ pool[1].cfiles[i].writable
          /\ PairIndex_is_dirty(pool[1].cfiles[i].index)

\* C3: once a session has ended with an added chunk not flushed, open of the
\* directory fails with InvalidIndex.
C3_AbandonedInvalidIndex ==
    abandoned => AdumpPool_open(disk, props).r = "InvalidIndex"

C3_Witness ==
    /\ abandoned
    /\ result = [op |-> "open", r |-> "InvalidIndex"]
    /\ \E n \in DOMAIN disk :
          /\ disk[n].t = "data"
          /\ WithExtension(n, IdxExt) \in DOMAIN disk
          /\ disk[WithExtension(n, IdxExt)].file_size # FileLen(disk[n])

\* C5: a writer that adds a chunk only when contains_key is false leaves,
\* after flush, as many frames in the pool-files as it presented distinct
\* oids, and no oid in two indexes or twice in one.
C5_NoDuplicateFrames ==
    (result = [op |-> "flush", r |-> "Ok"]) =>
        /\ CountFrames(disk) = Cardinality(presented)
        /\ \A i, j \in 1..Len(pool[1].cfiles) :
              \A a \in 1..Len(pool[1].cfiles[i].index.file) :
                  \A b \in 1..Len(pool[1].cfiles[j].index.file) :
                      (pool[1].cfiles[i].index.file[a].oid
                          = pool[1].cfiles[j].index.file[b].oid)
                      => (i = j /\ a = b)
        /\ \A i \in 1..Len(pool[1].cfiles) : ~PairIndex_is_dirty(pool[1].cfiles[i].index)

C5_Witness ==
    /\ result = [op |-> "flush", r |-> "Ok"]
    /\ Cardinality(presented) = 2
    /\ CountFrames(disk) = 2
    /\ Len(pool[1].cfiles) = 2

\* C6: no pool-file is larger than limit plus the largest frame written, and
\* every add for which the last pool-file plus the frame exceeds limit
\* starts a new pool-file.
C6_RolloverBound ==
    /\ \A n \in DOMAIN disk :
          disk[n].t = "data" => FileLen(disk[n]) <= props.limit + LargestFrame(disk)
    /\ pool # None =>
          /\ \A i \in 1..Len(pool[1].cfiles) :
                pool[1].cfiles[i].size <= props.limit + LargestFrame(disk)
          /\ \A k \in 1..Len(addLog) : LimitRule(addLog[k]) => addLog[k].fresh

C6_Witness ==
    /\ pool # None
    /\ \E i \in 1..Len(pool[1].cfiles) : pool[1].cfiles[i].size > props.limit
    /\ \E k \in 1..Len(addLog) : LimitRule(addLog[k]) /\ addLog[k].fresh

\* C10: every add of a session writes to the last ChunkFile and to no other
\* file, records as offset the size of that file before the add, and the
\* offsets of successive adds to one ChunkFile are strictly increasing.
C10_AppendOrder ==
    pool # None =>
        \A k \in 1..Len(addLog) :
            /\ addLog[k].grew = {addLog[k].name}
            /\ addLog[k].pos = addLog[k].flen
            /\ PairIndex_get(CfileNamed(pool[1], addLog[k].name).index,
                             addLog[k].oid)[1].offset = addLog[k].pos
            /\ \A j \in 1..Len(addLog) :
                  (k < j /\ addLog[k].name = addLog[j].name)
                  => addLog[k].pos < addLog[j].pos
            /\ k = Len(addLog) =>
                  addLog[k].name = pool[1].cfiles[Len(pool[1].cfiles)].name

C10_Witness ==
    /\ pool # None
    /\ Len(addLog) = 2
    /\ addLog[1].name = addLog[2].name
    /\ addLog[2].pos > addLog[1].pos

\* C4: an entry named *.idx is at every moment a complete index, also when
\* a save fails or the process dies inside it; a partial index exists only
\* under the .idx.tmp name, and save returns Ok only with the complete new
\* index installed.
C4_IndexInstallAtomic ==
    \A n \in DOMAIN disk :
        (Extension(n) = Some(IdxExt) /\ disk[n].t = "idx")
        => disk[n].bytes = IndexBytes(disk[n].nodes)

\* C7: in a pool with newfile = true a session creates at most one pool-file
\* that the limit rule does not ask for.
C7_OneNewFilePerSession ==
    (props.newfile /\ pool # None) =>
        Cardinality({k \in 1..Len(addLog) :
                        addLog[k].fresh /\ ~LimitRule(addLog[k])}) <= 1

\* The serials of the pool-files in the directory.
SerialsPresent(d) == {k \in 0..(2 * MaxFrames + 8) : PoolFileName(k) \in DOMAIN d}

\* The serial in the name of a pool-file that add created.
SerialOf(name) == ParseU32(SubSeq(name, 11, Len(name) - 5))

\* C8: the serials of the pool-files created by add, over all sessions, are
\* strictly increasing without a gap; add never tries to create a pool-file
\* that exists; and a pool opens with next_file one above the largest
\* serial present (0 if there is none).
C8_SerialsContiguous ==
    /\ \A i \in 1..(Len(created) - 1) :
          SerialOf(created[i + 1]) = SerialOf(created[i]) + 1
    /\ result # [op |-> "add", r |-> "panic"]
    /\ result = [op |-> "open", r |-> "Ok"] =>
          pool[1].next_file = IF SerialsPresent(disk) = {} THEN 0
                              ELSE MaxOf(SerialsPresent(disk)) + 1

\* A name of the form pool-data-NNNN.data.
IsPoolFileName(n) ==
    /\ Len(n) = 19
    /\ SubSeq(n, 1, 10) = PoolPrefix
    /\ \A i \in 11..14 : IsDigit(n[i])
    /\ SubSeq(n, 15, 19) = <<".", "d", "a", "t", "a">>

\* A name that ends in .data, after at least one other character.
EndsInDotData(n) ==
    Len(n) > 5 /\ SubSeq(n, Len(n) - 4, Len(n)) = <<".", "d", "a", "t", "a">>

\* The names of the ChunkFiles of the running pool, in list order.
CfileNames == [i \in 1..Len(pool[1].cfiles) |-> pool[1].cfiles[i].name]

\* C9 as claimed: open opens exactly the entries named pool-data-NNNN.data,
\* in ascending order, and fails only because of such an entry.
C9_OpensPoolFileNames ==
    result.op = "open" =>
        IF result.r = "Ok"
        THEN /\ {CfileNames[i] : i \in 1..Len(CfileNames)}
                    = {n \in DOMAIN disk : IsPoolFileName(n)}
             /\ \A i, j \in 1..Len(CfileNames) :
                    i < j => NameLess(CfileNames[i], CfileNames[j])
        ELSE \E n \in DOMAIN disk :
                IsPoolFileName(n) /\ ChunkFile_open(disk, n).r # "Ok"

\* C9, amended: open opens exactly the entries whose extension is data, in
\* ascending name order, and fails only because of such an entry.
C9_OpensDataEntries ==
    result.op = "open" =>
        IF result.r = "Ok"
        THEN /\ {CfileNames[i] : i \in 1..Len(CfileNames)}
                    = {n \in DOMAIN disk : EndsInDotData(n)}
             /\ \A i, j \in 1..Len(CfileNames) :
                    i < j => NameLess(CfileNames[i], CfileNames[j])
        ELSE \E n \in DOMAIN disk :
                EndsInDotData(n) /\ ChunkFile_open(disk, n).r # "Ok"

C9_Witness ==
    /\ result = [op |-> "open", r |-> "Ok"]
    /\ Len(CfileNames) = 2
    /\ CfileNames[1] = FooData
    /\ IsPoolFileName(CfileNames[2])
    /\ Pool3Datax \notin DOMAIN disk

\* The index files a flush of pool pl saves: those of the ChunkFiles whose
\* index is dirty.
FlushWrites(pl) ==
    {WithExtension(pl.cfiles[i].name, IdxExt) :
        i \in {j \in 1..Len(pl.cfiles) : PairIndex_is_dirty(pl.cfiles[j].index)}}

\* C11: a flush that directly follows a successful flush saves no index (so
\* writes no .idx and no .idx.tmp file), returns Ok and leaves the index, the
\* size and the state of every ChunkFile and the whole directory unchanged.
C11_FlushIdempotent ==
    (result = [op |-> "flush", r |-> "Ok"]) =>
        /\ FlushWrites(pool[1]) = {}
        /\ AdumpPool_flush(pool[1], disk, NoFault, 0)
              = [r |-> "Ok", cfiles |-> pool[1].cfiles, disk |-> disk]
        /\ \A n \in DOMAIN disk : n # tmpify(SubSeq(n, 1, Len(n) - 4))

C11_Witness ==
    /\ result = [op |-> "flush", r |-> "Ok"]
    /\ Len(pool[1].cfiles) = 2
    /\ \A i \in 1..2 :
          /\ Len(pool[1].cfiles[i].index.file) = 1
          /\ WithExtension(pool[1].cfiles[i].name, IdxExt) \in DOMAIN disk

\* The entries of a PairIndex, of both layers, as a set of nodes.
Entries(ix) ==
    {ix.file[i] : i \in 1..Len(ix.file)}
        \cup {Node(o, ix.ram[o].offset, ix.ram[o].kind) : o \in DOMAIN ix.ram}

\* A sequence of nodes in strictly increasing order of oid.
StrictlySorted(nodes) ==
    \A i \in 1..(Len(nodes) - 1) : OidLess(nodes[i].oid, nodes[i + 1].oid)

LoadVerdict(e, size) ==
    IF e.bytes < 8 THEN "Io"
    ELSE IF e.magic # "ldumpidx" THEN "InvalidIndex"
    ELSE IF e.bytes < 12 THEN "Io"
    ELSE IF e.version # 4 THEN "InvalidIndex"
    ELSE IF e.bytes < 16 THEN "Io"
    ELSE IF e.file_size # size THEN "InvalidIndex"
    ELSE IF e.bytes < IndexBytes(e.nodes) THEN "Io"
    ELSE "Ok"

\* C13: FileIndex::load fails with InvalidIndex on another magic, on another
\* version and on a file_size other than the expected size; it succeeds
\* only for the size the index was saved with; ChunkFile::open gives
\* InvalidIndex for every failure of the index load, missing and truncated
\* index included.
C13_LoadRejects ==
    /\ \A size \in IxSizes :
          IF R1Idx \in DOMAIN disk
          THEN /\ FileIndex_load(disk, R1Idx, size).ok
                     = (LoadVerdict(disk[R1Idx], size) = "Ok")
               /\ ~FileIndex_load(disk, R1Idx, size).ok =>
                     FileIndex_load(disk, R1Idx, size).err
                         = LoadVerdict(disk[R1Idx], size)
               /\ FileIndex_load(disk, R1Idx, size).ok => disk[R1Idx].file_size = size
          ELSE FileIndex_load(disk, R1Idx, size) = [ok |-> FALSE, err |-> "Io", nodes |-> <<>>]
    /\ R1Data \in DOMAIN disk =>
          ChunkFile_open(disk, R1Data).r
              = IF FileIndex_load(disk, R1Idx, FileLen(disk[R1Data])).ok
                THEN "Ok" ELSE "InvalidIndex"

\* An index saved for size 48 with an entry, refused for size 0.
C13_Witness ==
    /\ result = [op |-> "load", r |-> "InvalidIndex"]
    /\ disk[R1Idx].file_size = 48
    /\ disk[R1Idx].magic = IdxMagic
    /\ Len(disk[R1Idx].nodes) = 2
    /\ ChunkFile_open(disk, R1Data).r = "InvalidIndex"

\* No key is held twice: not by both layers, not twice by the file layer.
NoConflict(ix) ==
    Cardinality({n.oid : n \in Entries(ix)}) = Len(ix.file) + Cardinality(DOMAIN ix.ram)

\* What an index population holds for a key.
InfoOf(nodeset, key) ==
    IF \E n \in nodeset : n.oid = key
    THEN LET n == CHOOSE m \in nodeset : m.oid = key
         IN  Some([offset |-> n.offset, kind |-> n.kind])
    ELSE None

\* The FileIndex loaded from nodes answers as the population does.
AnswersAs(nodes, nodeset) ==
    \A k \in IxProbes :
        /\ FileIndex_get(nodes, k) = InfoOf(nodeset, k)
        /\ (FileIndex_find(nodes, k) # None) = (\E n \in nodeset : n.oid = k)

\* C14: after a save of an index population without repeated keys, a load
\* with the size of the save succeeds, and the loaded FileIndex gives
\* get(oid) = (offset, kind) for every entry of the population and None,
\* contains_key false, for every other key, the neighbours of the keys
\* included.
C14_SaveLoadRoundTrip ==
    (result = [op |-> "save", r |-> "Ok"] /\ NoConflict(index)) =>
        /\ FileIndex_load(disk, R1Idx, disk[R1Idx].file_size).ok
        /\ AnswersAs(FileIndex_load(disk, R1Idx, disk[R1Idx].file_size).nodes,
                     Entries(index))

\* A save of two neighbouring keys, one of each layer.
C14_Witness ==
    /\ result = [op |-> "save", r |-> "Ok"]
    /\ NoConflict(index)
    /\ Len(index.file) = 1
    /\ DOMAIN index.ram = {<<1, 1>>}
    /\ index.file[1].oid = <<1, 0>>

\* top[b] is the number of nodes whose first byte is at most b.
TopCounts(nodes) ==
    \A b \in 0..255 :
        compute_top(nodes, b) = Cardinality({i \in 1..Len(nodes) : nodes[i].oid[1] <= b})

\* C15: in every index saved from a PairIndex and loaded, the oids are
\* strictly increasing and top[b] is the number of entries of first byte at
\* most b.
C15_LoadedStrictlySorted ==
    (result = [op |-> "load", r |-> "Ok"]) =>
        /\ StrictlySorted(index.file)
        /\ TopCounts(index.file)

\* The answers of a PairIndex, from its two layers.
PairAnswers(ix) ==
    /\ \A k \in IxProbes :
          /\ PairIndex_contains_key(ix, k)
                = (k \in DOMAIN ix.ram \/ \E i \in 1..Len(ix.file) : ix.file[i].oid = k)
          /\ PairIndex_get(ix, k)
                = IF k \in DOMAIN ix.ram THEN Some(ix.ram[k])
                  ELSE FileIndex_get(ix.file, k)
          /\ (k \notin DOMAIN ix.ram /\ PairIndex_get(ix, k) # None) =>
                \E i \in 1..Len(ix.file) :
                    ix.file[i] = Node(k, PairIndex_get(ix, k)[1].offset,
                                      PairIndex_get(ix, k)[1].kind)
          /\ PairIndex_contains_key(ix, k) = (PairIndex_get(ix, k) # None)
    /\ PairIndex_is_dirty(ix) = (DOMAIN ix.ram # {})

\* C16: contains_key of a PairIndex is true when the ram layer or the file
\* layer holds the key; get gives the ram entry when there is one and the
\* file entry otherwise; contains_key is true exactly when get gives an
\* entry; is_dirty is true exactly when the ram layer is not empty; an
\* insert changes the ram layer only, and the key is then held by it.
C16_PairOverlay ==
    [][ /\ PairAnswers(index')
        /\ (result'.op = "insert") =>
              /\ index'.file = index.file
              /\ DOMAIN index.ram \subseteq DOMAIN index'.ram
              /\ Cardinality(DOMAIN index'.ram \ DOMAIN index.ram) <= 1
              /\ PairIndex_is_dirty(index') ]_vars

\* A key of the file layer, overlaid by an entry of the ram layer.
C16_Witness ==
    /\ result.op = "insert"
    /\ Len(index.file) = 1
    /\ index.file[1].oid \in DOMAIN index.ram
    /\ index.ram[index.file[1].oid].offset # index.file[1].offset

\* C17: an insert that returns never had its key in the ram layer before:
\* the entries that were there are as they were, and there is one more.
C17_InsertRejectsDuplicate ==
    [][ (result' = [op |-> "insert", r |-> "Ok"]) =>
            /\ \A k \in DOMAIN index.ram : index'.ram[k] = index.ram[k]
            /\ DOMAIN index'.ram # DOMAIN index.ram ]_vars

\* The ChunkFiles whose index holds a key.
Holders(pl, key) ==
    {i \in 1..Len(pl.cfiles) : PairIndex_contains_key(pl.cfiles[i].index, key)}

\* f is what the i-th ChunkFile finds, and no other ChunkFile was touched.
FoundIn(pl, d, key, f, i) ==
    /\ f.r = ChunkFile_find(pl.cfiles[i], d, key, NoFault).r
    /\ f.chunk = ChunkFile_find(pl.cfiles[i], d, key, NoFault).chunk
    /\ f.cfiles = [pl.cfiles EXCEPT ![i] = ChunkFile_find(pl.cfiles[i], d, key, NoFault).cf]
    /\ f.disk = ChunkFile_find(pl.cfiles[i], d, key, NoFault).disk

FoundInFirst(pl, d, key, f) ==
    IF Holders(pl, key) = {}
    THEN f = [r |-> "MissingChunk", chunk |-> None, cfiles |-> pl.cfiles, disk |-> d]
    ELSE /\ f.r # "MissingChunk"
         /\ FoundIn(pl, d, key, f, CHOOSE i \in Holders(pl, key) :
                                       \A j \in Holders(pl, key) : i <= j)

\* C18: AdumpPool.find gives what the first ChunkFile, in list order, whose
\* index holds the key finds, and touches no other ChunkFile; it gives
\* MissingChunk exactly when no index holds the key, which is exactly when
\* contains_key is false.
C18_FindFirstHit ==
    pool # None =>
        \A k \in Oids \cup {AbsentOid} :
            /\ FoundInFirst(pool[1], disk, k, AdumpPool_find(pool[1], disk, k, NoFault))
            /\ (AdumpPool_find(pool[1], disk, k, NoFault).r = "MissingChunk")
                  = ~AdumpPool_contains_key(pool[1], k)
            /\ AdumpPool_contains_key(pool[1], k) = (Holders(pool[1], k) # {})

\* A find of a key that two ChunkFiles hold: the first has been read, the
\* second has not.
C18_Witness ==
    /\ pool # None
    /\ result = [op |-> "find", r |-> "Ok"]
    /\ \E k \in Oids :
          /\ Holders(pool[1], k) = {1, 2}
          /\ pool[1].cfiles[1].buf = "Read"
          /\ pool[1].cfiles[2].buf # "Read"

\* The chunk found is the chunk asked for: its oid is the key, its kind the
\* kind that the index of the first ChunkFile holding the key records.
FoundIsAsked(pl, key, f) ==
    f.r = "Ok" =>
        /\ f.chunk[1].oid = key
        /\ \E i \in Holders(pl, key) :
              /\ \A j \in Holders(pl, key) : i <= j
              /\ f.chunk[1].kind = PairIndex_get(pl.cfiles[i].index, key)[1].kind

\* C19: every chunk that AdumpPool.find(k) returns has the oid k and the
\* kind recorded for k in the index; a frame that decodes to another oid
\* is not returned as a success.
C19_FoundIsAsked ==
    pool # None =>
        \A k \in Oids \cup {AbsentOid} :
            FoundIsAsked(pool[1], k, AdumpPool_find(pool[1], disk, k, NoFault))

\* The oids of the entries of kind back of all indexes of a pool.
BackEntries(pl) ==
    {n.oid : n \in {m \in UNION {Entries(pl.cfiles[i].index) : i \in 1..Len(pl.cfiles)} :
                        m.kind = KindBack}}

\* A sequence that holds exactly the elements of S, each once.
ExactlyOnce(seq, S) ==
    /\ {seq[i] : i \in 1..Len(seq)} = S
    /\ Len(seq) = Cardinality(S)

\* The number of index entries of kind back of the ChunkFiles from the i-th
\* on, the entries of both layers counted.
RECURSIVE BackCount(_, _)
BackCount(cfiles, i) ==
    IF i > Len(cfiles) THEN 0
    ELSE Cardinality({j \in 1..Len(cfiles[i].index.file) :
                          cfiles[i].index.file[j].kind = KindBack})
           + Cardinality({k \in DOMAIN cfiles[i].index.ram :
                              cfiles[i].index.ram[k].kind = KindBack})
           + BackCount(cfiles, i + 1)

\* The kind of the chunk of the last add.
LastAddedKind(log) == (CHOOSE c \in Chunks : c.oid = log[Len(log)].oid).kind

SameChunk(a, b) ==
    /\ a.kind = b.kind
    /\ a.oid = b.oid
    /\ a.data_len = b.data_len
    /\ data(a) # None
    /\ data(a) = data(b)

\* C21: the chunks read from a stream are, in order, the chunks written to
\* it, with the same kind, oid, data_len and data, and the reader stands at
\* the end of the bytes written for the last frame it read.
C21_StreamRoundTrip ==
    /\ Len(stream.got) <= Len(stream.wrote)
    /\ \A i \in 1..Len(stream.got) : SameChunk(stream.wrote[i], stream.got[i])
    /\ stream.rd = IF stream.got = <<>> THEN 0 ELSE stream.ends[Len(stream.got)]
    /\ (result = [op |-> "read_chunk", r |-> "Io"]) => stream.rd = Len(stream.bytes)

\* Three chunks read back, one stored compressed and one not.
C21_Witness ==
    /\ result = [op |-> "read_chunk", r |-> "Ok"]
    /\ Len(stream.got) = 3
    /\ \E i, j \in 1..3 : /\ stream.got[i].data = None
                            /\ stream.got[j].data # None /\ stream.got[j].data_len > 0

\* The bytes of the i-th frame of the stream.
FrameOf(st, i) ==
    SubSeq(st.bytes, IF i = 1 THEN 1 ELSE st.ends[i - 1] + 1, st.ends[i])

\* The bytes fb are the frame of chunk c, with clen payload bytes.
FrameIs(c, fb, clen) ==
    /\ Len(fb) = 48 + ((clen + 15) \div 16) * 16
    /\ Len(fb) = write_size(c)
    /\ SubSeq(fb, 17, 20) = <<clen, 0, 0, 0>>
    /\ SubSeq(fb, 21, 24) = IF zdata(c) # None THEN <<c.data_len, 0, 0, 0>>
                             ELSE <<255, 255, 255, 255>>
    /\ SubSeq(fb, 49, 48 + clen) = IF zdata(c) # None THEN zdata(c)[1] ELSE data(c)[1]
    /\ Len(fb) - (48 + clen) = (16 - (clen % 16)) % 16
    /\ \A i \in (48 + clen + 1)..Len(fb) : fb[i] = 0

\* C22: write_chunk emits 48 + round_up(clen, 16) bytes for a chunk, clen
\* being the length of zdata (and ulen the data_len) when zdata is present and
\* the data_len (and ulen 0xFFFFFFFF) otherwise; the bytes after the payload
\* are (-clen) mod 16 zero bytes; the number of bytes is write_size.
C22_FrameSize ==
    \A i \in 1..Len(stream.wrote) :
        FrameIs(stream.wrote[i], FrameOf(stream, i),
                IF zdata(stream.wrote[i]) # None THEN Len(zdata(stream.wrote[i])[1])
                ELSE stream.wrote[i].data_len)

\* A frame without padding, a frame with padding, a compressed frame.
C22_Witness ==
    /\ result = [op |-> "write_chunk", r |-> "Ok"]
    /\ Len(stream.wrote) = 3
    /\ \E i, j, k \in 1..3 :
          /\ zdata(stream.wrote[i]) = None /\ stream.wrote[i].data_len = 16
          /\ zdata(stream.wrote[j]) = None /\ stream.wrote[j].data_len = 17
          /\ zdata(stream.wrote[k]) # None

\* C23: whenever zdata() of a chunk is present, be the chunk built by
\* new_plain or by new_compressed, it is shorter than data_len.
C23_ZdataIsSmaller ==
    \A e \in cell.seen :
        (e.op = "zdata" /\ e.ret.r = "Some") =>
            \A l \in {f \in cell.seen : f.op = "data_len"} : Len(e.ret.v) < l.ret.v[1]

\* C24: when zdata() of a chunk built by new_plain(kind, payload) is present,
\* it inflates to the payload, and the chunk built from it by new_compressed
\* has the kind and the oid of the first and gives the payload from data()
\* and from into_bytes().
C24_CompressedTwin ==
    cell.from # None =>
        /\ inflate(zdata(cell.from[1])[1], cell.from[1].data_len) = cell.from[1].data
        /\ cell.from[1].data # None
        /\ cell.c # None =>
              /\ cell.c[1].kind = cell.from[1].kind
              /\ cell.c[1].oid = cell.from[1].oid
              /\ data(cell.c[1]) = cell.from[1].data
        /\ \A e \in cell.seen :
              /\ e.op \in {"data", "into_bytes"} =>
                    e.ret = Returned("Ok", cell.from[1].data[1])
              /\ e.op = "kind" => e.ret.v = <<cell.from[1].kind>>
              /\ e.op = "oid" => e.ret.v = cell.from[1].oid

\* The twin of a chunk has given its bytes from data() and from into_bytes().
C24_Witness ==
    /\ cell.from # None
    /\ cell.c = None
    /\ {e.op : e \in cell.seen} = {"data", "into_bytes"}
    /\ \A e \in cell.seen : Len(e.ret.v) = 5

\* C25: every accessor of a chunk returns the same on every call, and
\* data_len the length of what data() returns; the compression state, once
\* it is not Untried, and the data, once materialized, do not change; one of
\* the two buffers is always there.
C25_AccessorsPure ==
    [][ /\ \A a, b \in cell'.seen : a.op = b.op => a = b
        /\ \A a, b \in cell'.seen :
              (a.op = "data" /\ a.ret.r = "Ok" /\ b.op = "data_len") =>
                  Len(a.ret.v) = b.ret.v[1]
        /\ cell'.c # None =>
              (cell'.c[1].data # None \/ cell'.c[1].zdata.st = "Compressed")
        /\ (cell.c # None /\ cell'.c # None /\ cell'.from = cell.from) =>
              /\ cell.c[1].zdata.st # "Untried" => cell'.c[1].zdata = cell.c[1].zdata
              /\ cell.c[1].data # None => cell'.c[1].data = cell.c[1].data
              /\ cell'.c[1].kind = cell.c[1].kind
              /\ cell'.c[1].oid = cell.c[1].oid
              /\ cell'.c[1].data_len = cell.c[1].data_len ]_vars

\* All accessors were called on a chunk built by new_compressed, whose data
\* was materialized.
C25_Witness ==
    /\ cell.c # None
    /\ {e.op : e \in cell.seen} = {"kind", "oid", "data_len", "data", "zdata"}
    /\ cell.c[1].data # None
    /\ cell.c[1].zdata.st = "Compressed"
    /\ cell.built = "new_compressed"
    /\ cell.from = None

\* C26: data() of a chunk built by new_compressed whose zdata does not
\* inflate to data_len bytes returns the error CorruptChunk.
C26_DataReportsCorrupt ==
    result.op \in {"data", "into_bytes"} => result.r \in {"Ok", "CorruptChunk"}

\* What a find did to one ChunkFile: a the ChunkFile and d the directory
\* before, b and e after, r what the find returned.
ReadFlip(a, b, d, e, r) ==
    /\ a.buf = "Read" => b = a
    /\ (a.buf = "None" /\ b # a) =>
          /\ b = [a EXCEPT !.buf = "Read", !.fd = "r"]
          /\ e = d
          /\ r = "Ok"
    /\ (a.buf = "Write" /\ b # a) =>
          \/ /\ r = "Ok"
             /\ b = [a EXCEPT !.buf = "Read", !.wbuf = <<>>]
             /\ FramesOf(e[a.name]) = FramesOf(d[a.name]) \o a.wbuf
          \/ /\ r = "CorruptPool"
             /\ b = [a EXCEPT !.buf = "None", !.wbuf = <<>>, !.fd = "closed"]
             /\ e = d
    /\ (b # a /\ r = "Ok") =>
          /\ b.buf = "Read"
          /\ b.wbuf = <<>>
          /\ \A i \in 1..Len(PairIndex_iter(b.index)) :
                FrameAt(FramesOf(e[b.name]), PairIndex_iter(b.index)[i].offset) # None

\* C27: the read() of a find opens a ChunkFile without a descriptor for
\* reading, leaves one in the state Read as it is, and writes the buffered
\* frames of one in the state Write before it makes it a reader; when it
\* succeeds the state is Read and the frames of the earlier adds are in the
\* file; when the write of the buffer fails the state is None and the error
\* is CorruptPool.
C27_ReadFlips ==
    [][ (pool # None /\ pool' # None /\ result'.op = "find") =>
          /\ Len(pool'[1].cfiles) = Len(pool[1].cfiles)
          /\ \A i \in 1..Len(pool[1].cfiles) :
                ReadFlip(pool[1].cfiles[i], pool'[1].cfiles[i], disk, disk', result'.r)
          /\ result'.r = "CorruptPool" =>
                \E i \in 1..Len(pool[1].cfiles) :
                    /\ pool[1].cfiles[i].buf = "Write"
                    /\ pool'[1].cfiles[i].buf = "None" ]_vars

\* A find made a writer that held a frame a reader: the frame is in the
\* file, behind the frame of the only chunk indexed.
C27_Witness ==
    /\ pool # None
    /\ result = [op |-> "find", r |-> "Ok"]
    /\ faults = 1
    /\ \E i \in 1..Len(pool[1].cfiles) :
          /\ pool[1].cfiles[i].buf = "Read"
          /\ pool[1].cfiles[i].fd = "rw"
          /\ PairIndex_is_dirty(pool[1].cfiles[i].index)
          /\ Len(PairIndex_iter(pool[1].cfiles[i].index)) = 1
          /\ PairIndex_iter(pool[1].cfiles[i].index)[1].offset = 0
          /\ Len(FramesOf(disk[pool[1].cfiles[i].name])) = 2

\* The last ChunkFile of a pool, the one add writes to.
LastCfile(pl) == pl.cfiles[Len(pl.cfiles)]

\* What an operation that reads did to one ChunkFile.
ReadOnlyStep(a, b) ==
    /\ b.buf = "Write" => a.buf = "Write"
    /\ b.index = a.index
    /\ b.size = a.size
    /\ b.writable = a.writable
    /\ b.name = a.name

\* The i-th ChunkFile of q is in the state Write and was not in p.
CameToWrite(p, q, i) ==
    /\ q.cfiles[i].buf = "Write"
    /\ i <= Len(p.cfiles) => p.cfiles[i].buf # "Write"

\* C28: the ChunkFiles of an opened pool have no descriptor and are not
\* writable; find, contains_key and backups bring no ChunkFile into the
\* state Write, create no file, and change no index, no known size and no
\* .idx file; a ChunkFile comes into the state Write in an add only, which
\* reopens for writing the file of one that is not writable, and leaves the
\* ChunkFile it wrote to in the state Write.
C28_OnlyAddWrites ==
    [][ /\ (pool = None /\ pool' # None) =>
              \A i \in 1..Len(pool'[1].cfiles) :
                  /\ pool'[1].cfiles[i].buf = "None"
                  /\ pool'[1].cfiles[i].fd = "closed"
                  /\ ~pool'[1].cfiles[i].writable
        /\ (pool # None /\ pool' # None
                /\ result'.op \in {"find", "contains_key", "backups"}) =>
              /\ Len(pool'[1].cfiles) = Len(pool[1].cfiles)
              /\ \A i \in 1..Len(pool[1].cfiles) :
                    ReadOnlyStep(pool[1].cfiles[i], pool'[1].cfiles[i])
              /\ DOMAIN disk' = DOMAIN disk
              /\ \A n \in DOMAIN disk : disk[n].t # "data" => disk'[n] = disk[n]
        /\ (pool # None /\ pool' # None) =>
              \A i \in 1..Len(pool'[1].cfiles) :
                  CameToWrite(pool[1], pool'[1], i) =>
                      /\ result'.op = "add"
                      /\ i <= Len(pool[1].cfiles) =>
                            /\ pool'[1].cfiles[i].writable = pool[1].cfiles[i].writable
                            /\ ~pool[1].cfiles[i].writable => pool'[1].cfiles[i].fd = "rw"
        /\ (pool # None /\ pool' # None /\ result'.op = "add" /\ result'.r = "Ok") =>
              LastCfile(pool'[1]).buf = "Write" ]_vars

\* An add reopened the file of a ChunkFile that came from open and wrote
\* to it.
C28_Witness ==
    /\ pool # None
    /\ result = [op |-> "add", r |-> "Ok"]
    /\ pool[1].cfiles # <<>>
    /\ LastCfile(pool[1]).buf = "Write"
    /\ ~LastCfile(pool[1]).writable
    /\ LastCfile(pool[1]).fd = "rw"

\* A ChunkFile that is writable and has no descriptor.
ClosedWriter(cf) == cf.buf = "None" /\ cf.writable

\* C29: a writable ChunkFile is without a descriptor only after a find
\* failed with CorruptPool; an add to it then ends in a panic, and no chunk
\* is added; a find that reads it opens the file for reading and succeeds.
C29_ClosedWriterPanics ==
    [][ /\ (pool # None /\ pool' # None) =>
              \A i \in 1..Len(pool'[1].cfiles) :
                  (ClosedWriter(pool'[1].cfiles[i])
                      /\ (i <= Len(pool[1].cfiles) => ~ClosedWriter(pool[1].cfiles[i]))) =>
                          result' = [op |-> "find", r |-> "CorruptPool"]
        /\ (pool # None /\ pool[1].cfiles # <<>> /\ ClosedWriter(LastCfile(pool[1]))
                /\ result'.op = "add" /\ created' = created) =>
              /\ result'.r = "panic"
              /\ pool' = None
              /\ added' = added
        /\ (pool # None /\ pool' # None /\ result'.op = "find") =>
              \A i \in 1..Len(pool[1].cfiles) :
                  (ClosedWriter(pool[1].cfiles[i])
                      /\ pool'[1].cfiles[i] # pool[1].cfiles[i]) =>
                          /\ result'.r = "Ok"
                          /\ pool'[1].cfiles[i] =
                                [pool[1].cfiles[i] EXCEPT !.buf = "Read", !.fd = "r"]
                          /\ disk' = disk ]_vars

\* After two failures of the write of a buffer, the second in a find, an
\* add to the only pool-file ended in a panic.
C29_Witness ==
    /\ result = [op |-> "add", r |-> "panic"]
    /\ pool = None
    /\ faults = 2
    /\ Len(created) = 1

\* A path at which PoolBuilder::create makes a pool: one that names
\* nothing, or a directory without entries.
Creatable(t, d) == t.base = "absent" \/ (t.base = "dir" /\ DOMAIN d = {})

\* C30: PoolBuilder::create fails with PathError and writes nothing on a
\* directory that has entries; on a path that names nothing or an empty
\* directory it makes metadata/, seen/, metadata/props.txt and
\* metadata/backups.txt, and the AdumpPool::open that follows gives a pool
\* without ChunkFiles, next_file = 0, a uuid, and the newfile and the limit
\* configured on the builder.
C30_CreateThenOpen ==
    [][ /\ (result'.op = "create" /\ target.base = "dir" /\ DOMAIN disk # {}) =>
              /\ result'.r = "PathError"
              /\ disk' = disk
              /\ target' = target
        /\ (result'.op = "create" /\ Creatable(target, disk)) =>
              /\ result'.r = "Ok"
              /\ target'.base = "dir"
              /\ DOMAIN disk' = {MetadataName, SeenName}
              /\ \A n \in DOMAIN disk' : disk'[n] = DirEnt
              /\ DOMAIN target'.meta = {PropsName, BackupsName}
        /\ (result'.op = "open" /\ result = [op |-> "create", r |-> "Ok"]) =>
              /\ result'.r = "Ok"
              /\ pool' = Some([newfile |-> props.newfile, limit |-> props.limit,
                               dirty |-> FALSE, cfiles |-> <<>>, next_file |-> 0])
              /\ target'.uuid # None
              /\ target'.uuid[1] \in Uuids
              /\ disk' = disk ]_vars

\* A pool made with newfile set and a limit of 64 on a path that named
\* nothing was opened.
C30_Witness ==
    /\ result = [op |-> "open", r |-> "Ok"]
    /\ pool # None
    /\ pool[1].newfile
    /\ pool[1].limit = 64
    /\ pool[1].cfiles = <<>>
    /\ target.uuid # None
    /\ PropsName \in DOMAIN target.meta

\* The lines of props.txt that hold a property, in order.
Effective(lines) ==
    SelectSeq(lines, LAMBDA l : l # <<>> /\ l[1] # "#")

HasEq(l) == \E i \in 1..Len(l) : l[i] = "="

\* The line l gives the key k the value v: l is k, '=', v, and k holds
\* no '='.
Gives(l, k, v) ==
    /\ l = k \o <<"=">> \o v
    /\ ~HasEq(k)

\* The last line of ls that gives the key k gives it the value v.
LastGives(ls, k, v) ==
    \E i \in 1..Len(ls) :
        /\ Gives(ls[i], k, v)
        /\ \A j \in (i + 1)..Len(ls) :
              ~(Len(ls[j]) > Len(k) /\ SubSeq(ls[j], 1, Len(k) + 1) = k \o <<"=">>)

\* The keys and the values the lines of the model hold.
SomeKeys == {UuidKey, NewfileKey, LimitKey}
SomeValues ==
    {Hyphenated([i \in 1..16 |-> 255 - i]), BadUuidText, TrueText, FalseText,
     <<"y", "e", "s">>, <<"6", "4">>, <<"6", "=", "4">>}

\* What the open of the directory must give for the parsed properties:
\* the first of the keys uuid, newfile, limit that is missing or whose
\* value does not parse decides.
FirstDefect(ls) ==
    IF \A v \in SomeValues : ~LastGives(ls, UuidKey, v) THEN "PropertyError"
    ELSE IF ~\E v \in SomeValues : LastGives(ls, UuidKey, v) /\ Len(v) = 36 THEN "Uuid"
    ELSE IF \A v \in SomeValues : ~LastGives(ls, NewfileKey, v) THEN "PropertyError"
    ELSE IF ~\E v \in {TrueText, FalseText} : LastGives(ls, NewfileKey, v)
    THEN "ParseBoolError"
    ELSE IF \A v \in SomeValues : ~LastGives(ls, LimitKey, v) THEN "PropertyError"
    ELSE IF ~LastGives(ls, LimitKey, <<"6", "4">>) THEN "ParseIntError"
    ELSE "Ok"

\* A key is missing, or the value of a key does not parse.
SomeDefect(ls) ==
    \/ \E k \in SomeKeys : \A v \in SomeValues : ~LastGives(ls, k, v)
    \/ \E v \in SomeValues : LastGives(ls, UuidKey, v) /\ Len(v) # 36
    \/ \E v \in SomeValues \ {TrueText, FalseText} : LastGives(ls, NewfileKey, v)
    \/ \E v \in SomeValues \ {<<"6", "4">>} : LastGives(ls, LimitKey, v)

\* C31 as stated: AdumpPool::open returns PropertyError whenever props.txt
\* lacks one of the keys uuid, newfile, limit, and whenever the value of one
\* of them does not parse.
C31_DefectIsPropertyError ==
    (result.op = "open" /\ SomeDefect(Effective(target.meta[PropsName]))) =>
        result.r = "PropertyError"

\* C31, amended: AdumpPool::open returns PropertyError when a line of
\* props.txt has no '=', and otherwise what the first defect in the order
\* uuid, newfile, limit is: PropertyError for a missing key, Uuid,
\* ParseBoolError or ParseIntError for a value that does not parse.
C31_FirstDefectDecides ==
    result.op = "open" =>
        result.r = IF \E i \in 1..Len(Effective(target.meta[PropsName])) :
                         ~HasEq(Effective(target.meta[PropsName])[i])
                   THEN "PropertyError"
                   ELSE FirstDefect(Effective(target.meta[PropsName]))

\* The open of a directory whose props.txt has a uuid and a newfile that
\* parse and a limit that does not.
C31_Witness ==
    /\ result = [op |-> "open", r |-> "ParseIntError"]
    /\ \E i \in 1..Len(target.meta[PropsName]) :
          target.meta[PropsName][i] = LimitKey \o <<"=", "6", "=", "4">>

\* C32: pfile::parse skips the empty lines and the lines that start with
\* '#', fails with PropertyError when another line has no '=', and
\* otherwise maps each key, the part of a line before its first '=', to the
\* part behind that '=' of the last line with the key.
C32_ParseLastWins ==
    target.parsed # None =>
        IF \E i \in 1..Len(Effective(target.meta[PropsName])) :
               ~HasEq(Effective(target.meta[PropsName])[i])
        THEN target.parsed[1].r = "PropertyError"
        ELSE /\ target.parsed[1].r = "Ok"
             /\ \A k \in DOMAIN target.parsed[1].map :
                   LastGives(Effective(target.meta[PropsName]), k, target.parsed[1].map[k])
             /\ \A k \in SomeKeys : \A v \in SomeValues :
                   LastGives(Effective(target.meta[PropsName]), k, v) =>
                       /\ k \in DOMAIN target.parsed[1].map
                       /\ target.parsed[1].map[k] = v

\* The parse of a text with a comment, a key given twice and a value that
\* holds '='.
C32_Witness ==
    /\ target.parsed # None
    /\ target.parsed[1].r = "Ok"
    /\ DOMAIN target.parsed[1].map = {NewfileKey, LimitKey}
    /\ target.parsed[1].map[LimitKey] = <<"6", "=", "4">>
    /\ target.parsed[1].map[NewfileKey] = FalseText
    /\ target.meta[PropsName][1] = NewfileKey \o <<"=">> \o TrueText
    /\ \E i \in 1..Len(target.meta[PropsName]) :
          target.meta[PropsName][i] = <<"#">> \o LimitKey \o <<"=", "1">>

\* C33: pool::open of a directory gives the SQL-backed pool when the
\* directory holds data.db, an AdumpPool when it holds metadata/props.txt,
\* and fails with NotAPool when it holds neither.
C33_OpenByKind ==
    (result.op \in {"pool_open", "libpool_open"} /\ target.base = "dir") =>
        IF DataDbName \in DOMAIN disk /\ disk[DataDbName] = DbFile(TRUE)
        THEN result.r = "FilePool"
        ELSE IF DataDbName \notin DOMAIN disk /\ PropsName \in DOMAIN target.meta
        THEN result.r = "AdumpPool"
        ELSE DataDbName \notin DOMAIN disk => result.r = "NotAPool"

\* C34: Kind::new of a text with a char that is not ASCII fails with
\* NonAsciiKind whatever the length of the text; of an ASCII text whose
\* length is not 4, with BadKindLength; of any other text it gives the Kind
\* whose value is the four bytes read as a little-endian number, whose
\* bytes() are the four bytes and whose to_string() is the text.
C34_KindOfText ==
    /\ result.op = "Kind_new" =>
           IF \E i \in 1..Len(kind.text) : kind.text[i] >= 128
           THEN result.r = "NonAsciiKind" /\ kind.k = None
           ELSE IF Len(kind.text) # 4
           THEN result.r = "BadKindLength" /\ kind.k = None
           ELSE /\ result.r = "Ok"
                /\ kind.k = Some(kind.text[1] + 256 * kind.text[2]
                                   + 65536 * kind.text[3] + 16777216 * kind.text[4])
    /\ result.op = "Kind_read" =>
           /\ Len(kind.text) = 4
           /\ result.r.bytes = kind.text
           /\ result.r.string = kind.text
    /\ (result.op = "Kind_new" /\ kind.text = <<98, 108, 111, 98>>) =>
           kind.k = Some(KindBlob)

\* "blob" was made into 0x626f6c62 and read back.
C34_Witness ==
    /\ result.op = "Kind_read"
    /\ kind.text = <<98, 108, 111, 98>>
    /\ kind.k = Some(1651469410)

\* C35: no pool-file grows larger than the limit of the pool, neither the
\* file in the directory nor the size its ChunkFile knows.
C35_NeverOverLimit ==
    /\ \A n \in DOMAIN disk :
          disk[n].t = "data" => FileLen(disk[n]) <= props.limit
    /\ pool # None =>
          \A i \in 1..Len(pool[1].cfiles) : pool[1].cfiles[i].size <= props.limit

\* C36: whatever the limit, every pool-file stays at most 2^31-1 bytes long,
\* the open after adds and a flush does not fail with CorruptPool, the sum
\* of the rollover test fits in 32 bits, and the size a ChunkFile knows is
\* the length of its file.
C36_StaysInRange ==
    /\ \A i \in 1..Len(wide.files) :
          /\ wide.files[i].len <= I32MaxUnits
          /\ wide.files[i].size = wide.files[i].len
    /\ result.op = "open" => result.r # "CorruptPool"
    /\ result.r # "panic"

\* The oids of the chunks whose add failed and was not repeated with success.
FailedOids == presented \ {c.oid : c \in added}

\* C37: a chunk whose add failed while its frame was written is in no index
\* of the session, and after a later flush the next open succeeds and has
\* the chunk in no index.
C37_FailedAddLeavesNoTrace ==
    /\ pool # None =>
          \A k \in FailedOids : ~AdumpPool_contains_key(pool[1], k)
    /\ (pool # None /\ result.op = "flush" /\ result.r = "Ok" /\ FailedOids # {}) =>
          /\ AdumpPool_open(disk, props).r = "Ok"
          /\ \A k \in FailedOids :
                ~AdumpPool_contains_key(AdumpPool_open(disk, props).pool[1], k)

\* Entry e of the index of ChunkFile cf points at a frame of the frames fs
\* of its file: below the known size, at a multiple of 16, at the start of a
\* frame whose header has the oid and the kind of the entry.
EntryAtFrame(cf, fs, e) ==
    /\ e.offset < cf.size
    /\ e.offset % 16 = 0
    /\ FrameAt(fs, e.offset) # None
    /\ FrameAt(fs, e.offset)[1].oid = e.oid
    /\ FrameAt(fs, e.offset)[1].kind = e.kind

\* The frames of the file of a ChunkFile once its buffer is written.
FramesWritten(cf) == FramesOf(Drained(cf, disk)[cf.name])

\* C38: every entry of the PairIndex of a ChunkFile has an offset below the
\* size of the ChunkFile that is a multiple of 16 and the start of a
\* complete frame of the .data file with the oid and the kind of the entry,
\* and two entries of one ChunkFile have different offsets.
C38_EntriesPointAtFrames ==
    pool # None =>
        \A i \in 1..Len(pool[1].cfiles) :
           /\ pool[1].cfiles[i].name \in DOMAIN disk
           /\ \A e \in Entries(pool[1].cfiles[i].index) :
                 EntryAtFrame(pool[1].cfiles[i], FramesWritten(pool[1].cfiles[i]), e)
           /\ \A e1, e2 \in Entries(pool[1].cfiles[i].index) :
                 e1 # e2 => e1.offset # e2.offset

\* A ChunkFile with an entry loaded from its .idx and an entry of this
\* session, after an add.
C38_Witness ==
    /\ pool # None
    /\ result = [op |-> "add", r |-> "Ok"]
    /\ \E i \in 1..Len(pool[1].cfiles) :
          /\ pool[1].cfiles[i].index.file # <<>>
          /\ DOMAIN pool[1].cfiles[i].index.ram # {}
          /\ Cardinality({e.offset : e \in Entries(pool[1].cfiles[i].index)}) = 2

\* The .idx of a ChunkFile has the length of the .data file as file_size.
IdxSizeIsLength(cf) ==
    (WithExtension(cf.name, IdxExt) \in DOMAIN disk
       /\ disk[WithExtension(cf.name, IdxExt)].t = "idx") =>
        disk[WithExtension(cf.name, IdxExt)].file_size = FileLen(disk[cf.name])

\* C39: the size a ChunkFile knows is the length of its .data file once the
\* buffered bytes are written, and the .idx that a flush has written holds
\* the length of the .data file, also after an add that failed.
C39_SizeIsLength ==
    pool # None =>
        \A i \in 1..Len(pool[1].cfiles) :
           /\ pool[1].cfiles[i].size
                 = FileLen(Drained(pool[1].cfiles[i], disk)[pool[1].cfiles[i].name])
           /\ (result.op = "flush" /\ result.r = "Ok") =>
                 IdxSizeIsLength(pool[1].cfiles[i])

\* C40: finish, after one oid or more was given to add, returns a root oid
\* from which the walk through the IND chunks of the sink visits exactly
\* the oids given, in their order; no IND chunk is larger than the limit,
\* and no chunk is written for a single oid.
C40_FinishGivesTree ==
    /\ result.op = "ind_add" => result.r = "Ok"
    /\ (result.op = "finish" /\ Len(ind.leaves) >= 1) =>
          /\ result.r = "Ok"
          /\ ind.root # None
          /\ ind.buffers = <<>>
          /\ walk(ind.root[1], ind.sink) = ind.leaves
          /\ \A ch \in ind.sink :
                /\ Len(ch.data) * OidSize <= ind.limit
                /\ Len(ch.data) # 1
          /\ Len(ind.leaves) = 1 => (ind.root[1] = ind.leaves[1] /\ ind.sink = {})

====
